---- MODULE Spec2Model ----
(***************************************************************************)
(* The adaptive pagination harvesters of jobboard-data:                    *)
(*   src/Helsana/helsana.py  (main, polite_post, parse_teasers, ...)       *)
(*   src/fenaco/fenaco.py    (main, polite_post, parse_teasers, ...)       *)
(*   src/kanton Bern/bern.py (main, scrape_listing, ...)                   *)
(*   src/hirslanden/hirslanden.py (main, dedupe, ...)                      *)
(*   src/Lidl/lidl.py        (main, fetch_page)                            *)
(*   src/migros/migros.py    (main, mergeAll)                              *)
(*   src/post/post.py        (main, mergeAll)                              *)
(*   src/Schindler/schindler.py (scrape_all, main)                         *)
(* One run of main() is one behaviour.  `prog` says which script runs.     *)
(* Spec runs helsana and fenaco against every page of the site, DetailSpec *)
(* runs them against every Retry-After header, jitter draw and form list   *)
(* on a site of two pages, SafetySpec on a site that declares offsets      *)
(* close to fenaco's safety limit, ScanSpec runs the start of main() on    *)
(* every short landing text, BernSpec runs bern, HirslandenSpec runs       *)
(* hirslanden, LidlSpec lidl, MigrosSpec migros, PostSpec post and         *)
(* SchindlerSpec schindler.                                                *)
(*                                                                         *)
(* A page is what the scripts read of a response body:                     *)
(*   pag     the N of every sendPagination(N) directive, in text order     *)
(*           (what SEND_PAG_RE.finditer yields);                           *)
(*   anchors the detail-page anchors the teaser selector matches, in       *)
(*           document order, each with its resolved URL (href), the title  *)
(*           the extractor derives for it and one further field            *)
(*           (location, standing for all the nullable best-effort fields); *)
(*   body    the remaining bytes of the document.                          *)
(* Two responses are byte-identical iff they are the same page record, and *)
(* sha256 is modelled as collision free: the signature of a page is the    *)
(* page.  Times are in microseconds.                                       *)
(***************************************************************************)
EXTENDS Integers, Sequences, FiniteSets, TLC

(* ------------------------------ bounds -------------------------------- *)
\* The site is finite: beyond page index MaxSitePage it serves no listing.
MaxSitePage == 3
\* The longest page text scanned for directives, in tokens.
MaxTextLen == 6

(* ------------------------- program constants -------------------------- *)
MAX_RETRIES == 6
STEP_ITEMS == 7
DEFAULT_STEP_ITEMS == 12
HELSANA_BASE_DELAY == 700000
FENACO_BASE_DELAY == 900000
DELAY_CAP == 6000000
SAFETY_LIMIT == 2000
MAX_STEP_HINT == 200
MAX_WAIT == 10000000
JITTER_PRE == 250000
JITTER_WAIT == 600000

Throttling == {429, 503}
HttpErrors == {404, 500}

(* ------------------------------ helpers ------------------------------- *)
Range(s) == {s[i] : i \in 1..Len(s)}

Min(a, b) == IF a <= b THEN a ELSE b

MaxOf(S) == CHOOSE x \in S : \A y \in S : y <= x

MinOf(S) == CHOOSE x \in S : \A y \in S : x <= y

RECURSIVE SortedSeq(_)
SortedSeq(S) ==
  IF S = {} THEN <<>>
  ELSE LET m == MinOf(S) IN <<m>> \o SortedSeq(S \ {m})

(* --------------------------- the environment -------------------------- *)
A1 == [href |-> "u1", title |-> "t1", location |-> "x"]
A1t == [href |-> "u1", title |-> "t2", location |-> "x"]
A1y == [href |-> "u1", title |-> "t1", location |-> "y"]
A2 == [href |-> "u2", title |-> "t1", location |-> "x"]
A3 == [href |-> "u3", title |-> "t3", location |-> "x"]

PgA == [pag |-> <<7, 14>>, anchors |-> <<A1>>, body |-> "a"]
PgB == [pag |-> <<21>>, anchors |-> <<A2>>, body |-> "b"]
PgE == [pag |-> <<>>, anchors |-> <<>>, body |-> "e"]
PgD == [pag |-> <<>>, anchors |-> <<A1, A1t>>, body |-> "d"]
PgO == [pag |-> <<0, 7, 14>>, anchors |-> <<A1y>>, body |-> "o"]
PgF == [pag |-> <<>>, anchors |-> <<A3, A3, A3, A3, A3, A3, A3>>, body |-> "f"]

Pages == {PgA, PgB, PgE, PgD, PgO, PgF}

LandingPages == {PgA, PgO, PgE}

SiteEnd == MaxSitePage * STEP_ITEMS

\* Offsets from SiteFar on, close to fenaco's safety limit, are served like
\* those up to SiteEnd; only a page that declares such an offset leads there.
SiteFar == SAFETY_LIMIT - 2 * STEP_ITEMS

\* Landing pages that declare one offset close to the safety limit.
PgFar(n) == [pag |-> <<n>>, anchors |-> <<A1>>, body |-> "far"]
FarLandings ==
  {PgFar(SiteFar), PgFar(SAFETY_LIMIT - 1), PgFar(SAFETY_LIMIT)}

\* What the server may answer with status 200 to a request for offset o.
ServerPages(o) ==
  IF o > SiteEnd /\ o < SiteFar THEN {p \in Pages : p.anchors = <<>>}
  ELSE Pages

\* Forms of a landing page: the action URL and the names of the inputs.
SearchForm == [action |-> "/search", inputs |-> {"q"}]
PagingForm == [action |-> "/jobs", inputs |-> {"offset", "token"}]

\* What a landing page may hold as forms, in document order.
FormLists == {<<>>, <<SearchForm>>, <<SearchForm, PagingForm>>}

\* The Retry-After header of a response: absent (headers.get gives None),
\* or present with a text, a sequence of characters.
NoHeader == [present |-> FALSE, text |-> <<>>]
Header(t) == [present |-> TRUE, text |-> t]

\* Retry-After headers a server may send: none, an empty one, a decimal
\* fraction, and the digit strings "0", "05" and "30".
RetryAfterHeaders ==
  {NoHeader, Header(<<>>), Header(<<"1", ".", "5">>), Header(<<"0">>),
   Header(<<"0", "5">>), Header(<<"3", "0">>)}

\* Draws of random.uniform(0, hi): the two ends of the range, 0 and hi.
Draws == {0, 1}
uniform(u, hi) == u * hi

\* What a run is exposed to: the landing pages and forms the site may
\* have, the pages it may serve, the Retry-After headers it may send and
\* the draws of the random generator.
\* HarvestEnv: every page, on a site with one paging form that sends no
\* Retry-After; the jitter is at the low end of its range.
HarvestEnv ==
  [landings |-> LandingPages, site |-> Pages, forms |-> {<<PagingForm>>},
   hints |-> {NoHeader}, draws |-> {0}]

\* RequestEnv: every form list, Retry-After header and draw, on a site of
\* two pages.
RequestEnv ==
  [landings |-> {PgA}, site |-> {PgE, PgF}, forms |-> FormLists,
   hints |-> RetryAfterHeaders, draws |-> Draws]

(* --------------------------- pure functions --------------------------- *)
\* str.isdigit() on the header text
Digits == {"0", "1", "2", "3", "4", "5", "6", "7", "8", "9"}
isdigit(t) == t # <<>> /\ \A i \in 1..Len(t) : t[i] \in Digits

DigitValue(c) ==
  CASE c = "0" -> 0 [] c = "1" -> 1 [] c = "2" -> 2 [] c = "3" -> 3
    [] c = "4" -> 4 [] c = "5" -> 5 [] c = "6" -> 6 [] c = "7" -> 7
    [] c = "8" -> 8 [] c = "9" -> 9

\* float(ra) of a digit string, in microseconds
RECURSIVE DecimalValue(_, _)
DecimalValue(t, acc) ==
  IF t = <<>> THEN acc
  ELSE DecimalValue(Tail(t), 10 * acc + DigitValue(Head(t)))

float(t) == DecimalValue(t, 0) * 1000000

\* `ra and ra.isdigit()`: the header is there, not empty, all digits
HintUsable(ra) == ra.present /\ ra.text # <<>> /\ isdigit(ra.text)

\* Mutant of rate_limit_wait: the computed wait is not cut at MAX_WAIT.
rate_limit_wait_uncut(ra, d, u) ==
  IF HintUsable(ra) THEN float(ra.text)
  ELSE d * 2 + uniform(u, JITTER_WAIT)

\* helsana 101 / fenaco rate_limit_wait 138-141: the wait after a 429/503
\* whose Retry-After header is ra, at delay d, with jitter draw u
rate_limit_wait(ra, d, u) ==
  IF HintUsable(ra) THEN float(ra.text)
  ELSE Min(MAX_WAIT, d * 2 + uniform(u, JITTER_WAIT))

\* helsana 97 / fenaco 152: the sleep before a request, with jitter draw u
PreSleep(d, u) == d + uniform(u, JITTER_PRE)

\* helsana 128-146: the first form of the landing page, whatever its
\* inputs; fenaco find_form_and_payload: the first form with an input
\* named offset.  0 if there is none.
helsana_form(fs) == IF fs = <<>> THEN 0 ELSE 1

fenaco_form(fs) ==
  IF \E i \in 1..Len(fs) : "offset" \in fs[i].inputs
  THEN MinOf({i \in 1..Len(fs) : "offset" \in fs[i].inputs})
  ELSE 0

\* str(n) of a natural number: its decimal digits, a sequence of characters
DigitChar(d) ==
  CASE d = 0 -> "0" [] d = 1 -> "1" [] d = 2 -> "2" [] d = 3 -> "3"
    [] d = 4 -> "4" [] d = 5 -> "5" [] d = 6 -> "6" [] d = 7 -> "7"
    [] d = 8 -> "8" [] d = 9 -> "9"

RECURSIVE str(_)
str(n) == IF n < 10 THEN <<DigitChar(n)>>
          ELSE Append(str(n \div 10), DigitChar(n % 10))

\* `inp.get("value") or ""` of the input named n on the sites of the model:
\* the offset input holds "0", the token input "t", the others nothing.
input_value(n) ==
  CASE n = "offset" -> <<"0">> [] n = "token" -> <<"t">> [] OTHER -> <<>>

\* d[k] = v of a dict (a function from names to texts)
SetItem(d, k, v) ==
  [n \in DOMAIN d \cup {k} |-> IF n = k THEN v ELSE d[n]]

\* the names of the payload posted: helsana 132-146, fenaco 68-76
HELSANA_PAYLOAD ==
  {"offset", "limit", "lang", "cv_ref", "query", "filter_10", "filter_20",
   "filter_30"}

\* helsana 132-146: payload_base; the form's inputs do not replace a name
\* that is already there
helsana_payload(f, limit) ==
  [n \in HELSANA_PAYLOAD \cup f.inputs |->
     CASE n = "offset" -> <<"0">>
       [] n = "limit" -> str(limit)
       [] n = "lang" -> <<"d", "e">>
       [] n \in HELSANA_PAYLOAD \ {"offset", "limit", "lang"} -> <<>>
       [] OTHER -> input_value(n)]

\* fenaco 66-76: every named input with its value, and lang ("de" when the
\* page does not tell)
fenaco_payload(f) ==
  [n \in f.inputs \cup {"lang"} |->
     IF n \in f.inputs THEN input_value(n) ELSE <<"d", "e">>]

\* Mutant of RequestPayload: the base payload is posted as it is.
RequestPayloadStale(base, o) == base

\* helsana 164, fenaco 200 and 225: payload = dict(base);
\* payload["offset"] = str(off)
RequestPayload(base, o) == SetItem(base, "offset", str(o))

\* Mutant of Enqueue: appendleft / extendleft.
EnqueueFront(q, items) == items \o q

\* deque.append / deque.extend
Enqueue(q, items) == q \o items

\* helsana.py discover_offsets_in_html / fenaco.py discover_offsets
discover_offsets(page) == SortedSeq({0} \cup Range(page.pag))

\* A page text as SEND_PAG_RE reads it: a sequence of tokens, each the
\* literal "sendPagination(", a closing parenthesis or a single digit.
SEND_PAG == "sendPagination("
TextTokens == {SEND_PAG, ")", "0", "7"}

RECURSIVE TextsOfLen(_)
TextsOfLen(n) ==
  IF n = 0 THEN {<<>>}
  ELSE {Append(t, c) : t \in TextsOfLen(n - 1), c \in TextTokens}

Texts == UNION {TextsOfLen(n) : n \in 0..MaxTextLen}

\* the longest run of digits at the head of t: what (\d+) takes
RECURSIVE DigitRun(_)
DigitRun(t) ==
  IF t # <<>> /\ Head(t) \in Digits THEN <<Head(t)>> \o DigitRun(Tail(t))
  ELSE <<>>

\* Mutant of finditer: only the first match is taken (search).
RECURSIVE findfirst(_, _)
findfirst(t, acc) ==
  IF t = <<>> \/ acc # <<>> THEN acc
  ELSE LET ds == DigitRun(Tail(t))
           rest == SubSeq(t, Len(ds) + 2, Len(t))
       IN IF Head(t) = SEND_PAG /\ ds # <<>> /\ rest # <<>>
             /\ Head(rest) = ")"
          THEN findfirst(Tail(rest), Append(acc, ds))
          ELSE findfirst(Tail(t), acc)

\* SEND_PAG_RE.finditer(html): group 1 of the matches, left to right, not
\* overlapping
RECURSIVE finditer(_, _)
finditer(t, acc) ==
  IF t = <<>> THEN acc
  ELSE LET ds == DigitRun(Tail(t))
           rest == SubSeq(t, Len(ds) + 2, Len(t))
       IN IF Head(t) = SEND_PAG /\ ds # <<>> /\ rest # <<>>
             /\ Head(rest) = ")"
          THEN finditer(Tail(rest), Append(acc, ds))
          ELSE finditer(Tail(t), acc)

\* int(m.group(1))
int(ds) == DecimalValue(ds, 0)

\* The page of a text without listings: its directives, the text as body.
PageOfText(t) ==
  LET ms == finditer(t, <<>>)
  IN [pag |-> [i \in 1..Len(ms) |-> int(ms[i])], anchors |-> <<>>,
      body |-> t]

\* helsana.py discover_step_items
discover_step_items(page) ==
  IF page.pag # <<>> /\ 1 <= page.pag[1] /\ page.pag[1] <= MAX_STEP_HINT
  THEN page.pag[1]
  ELSE DEFAULT_STEP_ITEMS

Job(a, o) ==
  [title |-> a.title, location |-> a.location, teaser_url |-> a.href,
   source_offset |-> o]

\* helsana.py parse_teasers: one Job per distinct URL, the first anchor wins
RECURSIVE helsana_parse(_, _, _, _)
helsana_parse(anchors, o, seen_local, jobs) ==
  IF anchors = <<>> THEN jobs
  ELSE LET a == Head(anchors) IN
       IF a.href \in seen_local
       THEN helsana_parse(Tail(anchors), o, seen_local, jobs)
       ELSE helsana_parse(Tail(anchors), o, seen_local \cup {a.href},
                          Append(jobs, Job(a, o)))

helsana_parse_teasers(page, o) == helsana_parse(page.anchors, o, {}, <<>>)

\* fenaco.py parse_teasers: one Job per distinct (href, title)
FenacoLocalKey(a) == <<a.href, a.title>>

RECURSIVE fenaco_parse(_, _, _, _)
fenaco_parse(anchors, o, seen_local, jobs) ==
  IF anchors = <<>> THEN jobs
  ELSE LET a == Head(anchors) IN
       IF FenacoLocalKey(a) \in seen_local
       THEN fenaco_parse(Tail(anchors), o, seen_local, jobs)
       ELSE fenaco_parse(Tail(anchors), o,
                         seen_local \cup {FenacoLocalKey(a)},
                         Append(jobs, Job(a, o)))

fenaco_parse_teasers(page, o) == fenaco_parse(page.anchors, o, {}, <<>>)

\* fenaco.py count_cards (nested in main)
count_cards(page) == Len(page.anchors)

\* Mutant of helsana_merge: new_here counts the known jobs as well.
RECURSIVE helsana_merge_counting_all(_, _, _, _)
helsana_merge_counting_all(jobs, urls, res, new_here) ==
  IF jobs = <<>> THEN <<urls, res, new_here>>
  ELSE LET j == Head(jobs) IN
       IF j.teaser_url \in urls
       THEN helsana_merge_counting_all(Tail(jobs), urls, res, new_here + 1)
       ELSE helsana_merge_counting_all(Tail(jobs), urls \cup {j.teaser_url},
                                       Append(res, j), new_here + 1)

\* helsana.py main, lines 176-182: merge the page's jobs, first URL wins.
\* Returns <<seen_urls, results, new_here>>.
RECURSIVE helsana_merge(_, _, _, _)
helsana_merge(jobs, urls, res, new_here) ==
  IF jobs = <<>> THEN <<urls, res, new_here>>
  ELSE LET j == Head(jobs) IN
       IF j.teaser_url \in urls
       THEN helsana_merge(Tail(jobs), urls, res, new_here)
       ELSE helsana_merge(Tail(jobs), urls \cup {j.teaser_url},
                          Append(res, j), new_here + 1)

\* fenaco.py main, lines 236-238: parse every collected page in offset order
RECURSIVE fenaco_all_jobs(_, _)
fenaco_all_jobs(offs, h) ==
  IF offs = <<>> THEN <<>>
  ELSE fenaco_parse_teasers(h[Head(offs)], Head(offs))
         \o fenaco_all_jobs(Tail(offs), h)

DedupKey(j) == <<j.title, j.teaser_url>>

\* fenaco.py main, line 241: {key: j for j in all_jobs}.  A dict keeps the
\* position of a key's first insertion and the value of its last one.
RECURSIVE DictValues(_, _)
DictValues(jobs, out) ==
  IF jobs = <<>> THEN out
  ELSE LET j == Head(jobs) IN
       IF \E i \in 1..Len(out) : DedupKey(out[i]) = DedupKey(j)
       THEN DictValues(Tail(jobs),
              [i \in 1..Len(out) |->
                 IF DedupKey(out[i]) = DedupKey(j) THEN j ELSE out[i]])
       ELSE DictValues(Tail(jobs), Append(out, j))

fenaco_dedup(all_jobs) == DictValues(all_jobs, <<>>)

\* Mutant of Newly: the `not` of `n not in queue` is lost.
NewlyInQueue(page, seen, q) ==
  SelectSeq(discover_offsets(page), LAMBDA n : n \notin seen /\ n \in Range(q))

\* main, helsana 192 / fenaco 210: the discovered offsets that are new
Newly(page, seen, q) ==
  SelectSeq(discover_offsets(page), LAMBDA n : n \notin seen /\ n \notin Range(q))

\* Mutant of ThrottleDelay: the delay is divided by 1.8.
ThrottleDelayDivided(d) == Min(DELAY_CAP, (d * 10) \div 18)

\* polite_post / rate_limit_wait: the delay after a throttling response
ThrottleDelay(d) == Min(DELAY_CAP, (d * 18) \div 10)

\* Mutant of ErrorDelay: the retry after an HTTP error keeps the delay.
ErrorDelayKept(d) == d

\* fenaco polite_post, line 165: the delay after another HTTP error
ErrorDelay(d) == Min(DELAY_CAP, (d * 16) \div 10)

\* Mutant of IsLastAttempt: half the attempts.
IsLastAttemptHalf(a) == a = MAX_RETRIES \div 2

\* Mutant of IsLastAttempt: the range is one too long.
IsLastAttemptOffByOne(a) == a = MAX_RETRIES + 1

\* polite_post: `for attempt in range(1, MAX_RETRIES + 1)` has run out
IsLastAttempt(a) == a = MAX_RETRIES

\* Mutant of LastOff: the safety step starts from the first collected page.
LastOffMin(h) == MinOf(DOMAIN h)

\* fenaco main, line 218
LastOff(h) == MaxOf(DOMAIN h)

\* Mutant of MarkSeen: the popped offset is not recorded.
MarkSeenForgotten(seen, o) == seen

\* helsana 161 / fenaco 197: seen_offsets.add(off)
MarkSeen(seen, o) == seen \cup {o}

(* ============================== bern.py =============================== *)
START_URL == "https://ohws.prospective.ch/public/v1/careercenter/1001760/?lang=de"
LIST_URL == "https://ohws.prospective.ch/list"
DEFAULT_STEP == 10

\* urljoin(START_URL, a) if a else START_URL, for the action attributes
\* "", "?lang=de" (the page itself) and "/list"
bern_action(a) ==
  CASE a = "" -> START_URL
    [] a = "?lang=de" -> START_URL
    [] a = "/list" -> LIST_URL

\* (form_el.get("method") or "post").lower()
bern_method(m) ==
  CASE m = "" -> "post"
    [] m = "POST" -> "post"
    [] m = "post" -> "post"
    [] m = "GET" -> "get"
    [] m = "get" -> "get"

\* nm.lower() of an input name
lower(n) == IF n = "Page" THEN "page" ELSE n

\* An input of a form: its name, its id, whether it is hidden and whether
\* its value is a string of digits.
Input(n, i, h, d) == [name |-> n, id |-> i, hidden |-> h, digits |-> d]

A0 == [href |-> "u4", title |-> "", location |-> "x"]

\* A form and the landing pages of the site: the listing anchors, the
\* "x von N" total (0: none), the step of the forward button (0: none),
\* the field written by sendPagination ("": none), the forms, and the form
\* the forward button stands in (0: none within five parents).
BernFormPlain == [method |-> "", action |-> "", inputs |-> <<>>]
BernFormGet ==
  [method |-> "GET", action |-> "/list",
   inputs |-> <<Input("start", "offset", TRUE, TRUE),
                Input("Page", "", TRUE, FALSE)>>]
BernFormHidden ==
  [method |-> "post", action |-> "?lang=de",
   inputs |-> <<Input("q", "", FALSE, FALSE), Input("Page", "", TRUE, FALSE),
                Input("n", "", TRUE, TRUE)>>]

BernL1 ==
  [anchors |-> <<A1, A2>>, total |-> 0, btn_step |-> 0, exact_field |-> "",
   forms |-> <<BernFormPlain>>, btn_form |-> 0]
BernL2 ==
  [anchors |-> <<A1>>, total |-> 2, btn_step |-> 2, exact_field |-> "start",
   forms |-> <<BernFormPlain, BernFormGet>>, btn_form |-> 2]
BernL3 ==
  [anchors |-> <<A1, A0, A1t>>, total |-> 3, btn_step |-> 0,
   exact_field |-> "", forms |-> <<BernFormHidden>>, btn_form |-> 0]
BernL4 ==
  [anchors |-> <<A1>>, total |-> 0, btn_step |-> 0, exact_field |-> "",
   forms |-> <<>>, btn_form |-> 0]

BernLandings == {BernL1, BernL2, BernL3, BernL4}

\* What the site may answer to a submission: the listing anchors of a page.
BernPages == {<<>>, <<A1, A2>>, <<A3, A1>>, <<A2, A0>>}

BernEnv ==
  [landings |-> BernLandings, site |-> BernPages, forms |-> {}, hints |-> {},
   draws |-> {}]

\* extract_jobs_from_page: the titled anchors, one item per detail URL
RECURSIVE extract_jobs(_, _, _)
extract_jobs(anchors, seen, out) ==
  IF anchors = <<>> THEN out
  ELSE LET a == Head(anchors) IN
       IF a.title = "" \/ a.href \in seen
       THEN extract_jobs(Tail(anchors), seen, out)
       ELSE extract_jobs(Tail(anchors), seen \cup {a.href},
                         Append(out, [title_list |-> a.title,
                                      detail_url |-> a.href]))

extract_jobs_from_page(anchors) == extract_jobs(anchors, {}, <<>>)

\* all_jobs.setdefault(it["detail_url"], it) for every item
RECURSIVE setdefault_all(_, _)
setdefault_all(jobs, items) ==
  IF items = <<>> THEN jobs
  ELSE LET it == Head(items) IN
       IF \E i \in 1..Len(jobs) : jobs[i].detail_url = it.detail_url
       THEN setdefault_all(jobs, Tail(items))
       ELSE setdefault_all(Append(jobs, it), Tail(items))

\* the items of a page whose detail_url is not in all_jobs
new_jobs(jobs, items) ==
  SelectSeq(items, LAMBDA it :
    \A i \in 1..Len(jobs) : jobs[i].detail_url # it.detail_url)

\* scrape_listing 147-160: the form the forward button stands in, else the
\* first form of the page; 0 if the page has no form
bern_form(page) ==
  IF page.btn_form # 0 THEN page.btn_form
  ELSE IF page.forms # <<>> THEN 1 ELSE 0

CANDIDATES ==
  <<"start", "offset", "from", "page", "pageStart", "firstResult",
    "resultStart", "startIndex">>

\* candidate_pagination_fields, first loop: for every input, (nm or id_)
\* once per candidate that equals its name or its id
RECURSIVE candidates_of_input(_, _)
candidates_of_input(inp, cs) ==
  IF cs = <<>> THEN <<>>
  ELSE (IF inp.name = Head(cs) \/ inp.id = Head(cs)
        THEN <<IF inp.name # "" THEN inp.name ELSE inp.id>>
        ELSE <<>>) \o candidates_of_input(inp, Tail(cs))

RECURSIVE named_candidates(_)
named_candidates(inputs) ==
  IF inputs = <<>> THEN <<>>
  ELSE candidates_of_input(Head(inputs), CANDIDATES)
         \o named_candidates(Tail(inputs))

\* second loop: the hidden inputs with a digit value or a telling name
RECURSIVE hidden_candidates(_, _)
hidden_candidates(inputs, ids) ==
  IF inputs = <<>> THEN ids
  ELSE LET inp == Head(inputs) IN
       IF /\ inp.hidden
          /\ inp.name # ""
          /\ inp.name \notin Range(ids)
          /\ (inp.digits \/ lower(inp.name) \in {"page", "start", "offset"})
       THEN hidden_candidates(Tail(inputs), Append(ids, inp.name))
       ELSE hidden_candidates(Tail(inputs), ids)

candidate_pagination_fields(form) ==
  IF named_candidates(form.inputs) # <<>> THEN named_candidates(form.inputs)
  ELSE hidden_candidates(form.inputs, <<>>)

\* scrape_listing 175-180
bern_tests(page, form) ==
  LET t0 == IF page.exact_field # "" THEN <<page.exact_field>> ELSE <<>>
      t1 == t0 \o SelectSeq(candidate_pagination_fields(form),
                            LAMBDA f : f # "" /\ f \notin Range(t0))
  IN IF t1 = <<>> THEN <<"start", "offset", "page">> ELSE t1

\* scrape_listing 189-199
bern_strategies(meth, act) ==
  <<[label |-> "declared", meth |-> meth, act |-> act]>>
  \o (IF meth # "post"
      THEN <<[label |-> "force-post", meth |-> "post", act |-> act]>>
      ELSE <<>>)
  \o <<[label |-> "post-starturl", meth |-> "post", act |-> START_URL],
       [label |-> "force-get", meth |-> "get", act |-> act],
       [label |-> "get-starturl", meth |-> "get", act |-> START_URL]>>

\* build_form_payload: the names of the inputs that have one
bern_payload(form) ==
  {form.inputs[i].name : i \in 1..Len(form.inputs)} \ {""}

\* A submission: the method, the URL and the data sent.
Submission(meth, act, names, field, value) ==
  [meth |-> meth, act |-> act, names |-> names \cup {field}, field |-> field,
   value |-> value]

NoCombo == [field |-> "", meth |-> "", act |-> ""]

(* ------------------------------- state -------------------------------- *)
VARIABLES
  prog,            \* "helsana" | "fenaco" | "bern" | "hirslanden"
  env,             \* what the run is exposed to (HarvestEnv, RequestEnv)
  landing,         \* the landing page (GET START_URL)
  forms,           \* the forms of the landing page
  action,          \* the action URL of the form chosen at start
  payload,         \* the base payload (bern: the names of its fields)
  step_items,      \* helsana: discover_step_items(landing); fenaco: STEP_ITEMS
  queue,           \* deque of pending offsets
  seen_offsets,    \* offsets popped and requested
  seen_hashes,     \* helsana: signatures of the pages processed
  seen_urls,       \* helsana: URLs of the records kept
  results,         \* helsana: the records kept, in order
  html_by_offset,  \* fenaco: offset -> page collected
  pc,              \* "init" | "loop" | "post" | "safety" | "emit" | "done"
                   \* | "aborted"; bern: "init" | "probe" | "crawl" |
                   \* "emit" | "detail" | "done" | "aborted"; hirslanden:
                   \* "init" | "page" | "load" | "fallback" | "rows" |
                   \* "rowload" | "emit" | "done" | "aborted"
  phase,           \* fenaco: "queue" | "safety", the loop polite_post returns to
  off,             \* the offset of the current polite_post call
  attempt,         \* polite_post: attempt number
  delay,           \* polite_post: delay
  slept,           \* polite_post: the sleep before the current request
  wait,            \* polite_post: the rate-limit wait slept after the
                   \* last answer, 0 if that was not a 429/503
  last_off,        \* fenaco safety step
  cards_last,      \* fenaco safety step
  written,         \* the output file has been written
  data,            \* the content of the output file
  \* history variables (not program state)
  dispatched,      \* the offsets polite_post was called with, in order
  posted,          \* the data polite_post was called with last
  fetched,         \* the <<offset, page>> polite_post returned, in order
  reqs,            \* network requests issued by the current polite_post call
  throttles,       \* of which answered 429/503
  retry_after,     \* the Retry-After header of that answer
  enqueued,        \* the offsets put into the queue, in order
  declared,        \* offsets declared by the content of any page received
  stepped,         \* offsets produced by step-forward / safety step
  \* bern.py
  all_jobs,        \* detail_url -> item, in insertion order
  method,          \* the method of the form
  step,            \* the pagination step
  total_pages,     \* parse_total_pages, 0 for None
  tests,           \* the pagination fields to try
  strategies,      \* the (label, method, action) to try
  field_ix,        \* the probe loops: the field at hand
  strat_ix,        \* and the strategy at hand
  worked,          \* worked_field, worked_method, worked_action
  start,           \* the start value of the continuation loop
  detailed,        \* main: the detailed list
  stdout,          \* the kinds of the messages bern prints, in order
  \* history variables (not program state)
  submitted,       \* the submissions made, in order
  raised,          \* some submission raised an exception
  \* hirslanden.py
  url,             \* the URL of the page at hand
  soup,            \* the page at hand
  next_url,        \* the URL about to be loaded
  visited_pages,   \* the URLs whose page was processed
  total,           \* the total the site reports, 0 for None
  window,          \* the page window the site reports, 0 for None
  per_page,        \* fallback: the step of startrow
  startrow,        \* fallback: the row asked for
  empty_runs,      \* fallback: pages without jobs in a row
  \* history variables (not program state)
  extracted,       \* next-link phase: the URLs whose jobs were extracted
  stale_runs,      \* fallback: pages without a new job in a row
  rounds,          \* fallback: pages requested
  \* lidl.py, migros.py, post.py, schindler.py
  page_number,     \* lidl, migros: the page number of main's loop
  backoff,         \* lidl fetch_page: the backoff in seconds
  all_hits,        \* lidl: the hits collected
  seen_ids,        \* lidl: the job ids collected
  total_reported,  \* lidl: the count of the first answer, 0 for None
  disk,            \* migros, post: the page files, name -> content
  files,           \* migros, post mergeAll: the sorted names
  hits_all,        \* migros mergeAll: the hits merged
  seen_keys,       \* post mergeAll: the keys of the items merged
  items_unique,    \* post mergeAll: the items merged
  first_html,      \* schindler: the first page
  html,            \* schindler: the page at hand
  for_ix,          \* the number of rounds the for loop at hand has made
  \* history variables (not program state)
  sleeps,          \* lidl fetch_page: the sleeps of the current call
  tried,           \* lidl: page -> attempts made
  requested        \* schindler: the startrow values requested, in order

vars == <<prog, env, landing, forms, action, payload, slept, wait,
          retry_after, enqueued, step_items, queue, seen_offsets, seen_hashes,
          seen_urls, results, html_by_offset, pc, phase, off, attempt, delay,
          last_off, cards_last, written, data, dispatched, fetched, reqs,
          throttles, declared, stepped, all_jobs, method, step, total_pages,
          tests, strategies, field_ix, strat_ix, worked, start, detailed,
          submitted, raised, stdout, posted, url, soup, next_url,
          visited_pages, total, window, per_page, startrow, empty_runs,
          extracted, stale_runs, rounds, page_number, backoff, all_hits, seen_ids,
          total_reported, disk, files, hits_all, seen_keys, items_unique,
          first_html, html, for_ix, sleeps, tried, requested>>

hirslandenVars == <<url, soup, next_url, visited_pages, total, window,
                    per_page, startrow, empty_runs, extracted, stale_runs,
                    rounds>>

lidlVars == <<page_number, backoff, all_hits, seen_ids, total_reported,
              sleeps, tried>>
mergeVars == <<disk, files, hits_all, seen_keys, items_unique>>
schindlerVars == <<first_html, html, requested>>
scriptVars == <<lidlVars, mergeVars, schindlerVars>>

bernVars == <<all_jobs, method, step, total_pages, tests, strategies,
              field_ix, strat_ix, worked, start, detailed, submitted, raised,
              stdout>>

loopVars == <<queue, seen_offsets, seen_hashes, seen_urls, results,
              html_by_offset, last_off, cards_last>>
outVars == <<written, data>>
fixedVars == <<prog, env, landing, forms, bernVars, hirslandenVars,
               scriptVars, for_ix>>
setupVars == <<step_items, action, payload>>
politeVars == <<slept, wait, retry_after>>

EmptyMap == [o \in {} |-> PgE]

\* hirslanden.py does not run.
HirslandenIdle ==
  /\ url = ""
  /\ soup = <<>>
  /\ next_url = ""
  /\ visited_pages = {}
  /\ total = 0
  /\ window = 0
  /\ per_page = 0
  /\ startrow = 0
  /\ empty_runs = 0
  /\ extracted = <<>>
  /\ stale_runs = 0
  /\ rounds = 0

\* lidl.py, migros.py, post.py and schindler.py do not run.
ScriptsIdle ==
  /\ page_number = 0
  /\ backoff = 0
  /\ all_hits = <<>>
  /\ seen_ids = {}
  /\ total_reported = 0
  /\ sleeps = <<>>
  /\ tried = <<>>
  /\ disk = <<>>
  /\ files = <<>>
  /\ hits_all = <<>>
  /\ seen_keys = {}
  /\ items_unique = <<>>
  /\ first_html = <<>>
  /\ html = <<>>
  /\ requested = <<>>

\* The state before main() runs, the landing page being one of pages.
InitOn(e, pages) ==
  /\ prog \in {"helsana", "fenaco"}
  /\ env = e
  /\ landing \in pages
  /\ forms \in e.forms
  /\ action = ""
  /\ payload = <<>>
  /\ step_items = 0
  /\ queue = <<>>
  /\ seen_offsets = {}
  /\ seen_hashes = {}
  /\ seen_urls = {}
  /\ results = <<>>
  /\ html_by_offset = EmptyMap
  /\ pc = "init"
  /\ phase = "queue"
  /\ off = 0
  /\ attempt = 0
  /\ delay = 0
  /\ slept = 0
  /\ wait = 0
  /\ retry_after = NoHeader
  /\ enqueued = <<>>
  /\ last_off = 0
  /\ cards_last = 0
  /\ written = FALSE
  /\ data = <<>>
  /\ dispatched = <<>>
  /\ posted = <<>>
  /\ fetched = <<>>
  /\ reqs = 0
  /\ throttles = 0
  /\ declared = {}
  /\ stepped = {}
  /\ all_jobs = <<>>
  /\ method = ""
  /\ step = 0
  /\ total_pages = 0
  /\ tests = <<>>
  /\ strategies = <<>>
  /\ field_ix = 0
  /\ strat_ix = 0
  /\ worked = NoCombo
  /\ start = 0
  /\ submitted = <<>>
  /\ raised = FALSE
  /\ stdout = <<>>
  /\ HirslandenIdle
  /\ ScriptsIdle
  /\ for_ix = 0
  /\ detailed = <<>>

\* The state before main() runs, on a site of environment e.
InitIn(e) == InitOn(e, e.landings)

Init == InitIn(HarvestEnv)

DetailInit == InitIn(RequestEnv)

BaseDelay == IF prog = "helsana" THEN HELSANA_BASE_DELAY ELSE FENACO_BASE_DELAY

\* Mutant of CallPolitePost: the delay is kept from the call before.
CallPolitePostKeepingDelay(o) ==
  /\ off' = o
  /\ attempt' = 1
  /\ delay' = IF delay = 0 THEN BaseDelay ELSE delay
  /\ \E u \in env.draws : slept' = PreSleep(delay', u)
  /\ wait' = 0
  /\ retry_after' = NoHeader
  /\ reqs' = 0
  /\ throttles' = 0
  /\ dispatched' = Append(dispatched, o)
  /\ posted' = RequestPayload(payload, o)
  /\ pc' = "post"

\* The call polite_post(client, action, payload, page_no, o) begins.
CallPolitePost(o) ==
  /\ off' = o
  /\ attempt' = 1
  /\ delay' = BaseDelay
  /\ \E u \in env.draws : slept' = PreSleep(BaseDelay, u)
  /\ wait' = 0
  /\ retry_after' = NoHeader
  /\ reqs' = 0
  /\ throttles' = 0
  /\ dispatched' = Append(dispatched, o)
  /\ posted' = RequestPayload(payload, o)
  /\ pc' = "post"

(* ------------------------ where the run stands ----------------------- *)
\* main() is about to load the landing page
AtStart == pc = "init"
\* Mutant of AtLoopBody: the next offset is popped without waiting for the
\* answer to the request under way.
AtLoopBodyEager == pc \in {"loop", "post"} /\ queue # <<>>

\* `while queue:` is entered / is left
AtLoopBody == pc = "loop" /\ queue # <<>>
AtLoopEnd == pc = "loop" /\ queue = <<>>
\* inside polite_post, a request is about to be answered
InPolitePost == pc = "post"
\* fenaco: at the test of the safety loop
AtSafetyTest == pc = "safety"
\* after the loops, before the output is written
AtWrite == pc = "emit"

(* ------------------------ the start of main() ------------------------ *)
\* helsana 121-122 / fenaco 178-179: the landing page is answered with an
\* HTTP error status and raise_for_status() raises
LandingError ==
  /\ AtStart
  /\ \E status \in Throttling \cup HttpErrors : pc' = "aborted"
  /\ UNCHANGED <<fixedVars, setupVars, politeVars, loopVars, phase, off,
                 attempt, delay, outVars, dispatched, posted, fetched, reqs,
                 throttles, declared, stepped, enqueued>>

\* helsana 121-155 / fenaco 178-191: the landing page is loaded, the form
\* is chosen and the queue is filled with the offsets it declares
Landing ==
  /\ AtStart
  /\ LET f == IF prog = "helsana" THEN helsana_form(forms)
              ELSE fenaco_form(forms)
     IN IF f = 0
        THEN /\ pc' = "aborted"
             /\ step_items' = IF prog = "helsana"
                              THEN discover_step_items(landing)
                              ELSE STEP_ITEMS
             /\ UNCHANGED <<action, payload, queue, declared, enqueued>>
        ELSE /\ action' = forms[f].action
             /\ payload' = IF prog = "helsana"
                           THEN helsana_payload(forms[f],
                                                discover_step_items(landing))
                           ELSE fenaco_payload(forms[f])
             /\ step_items' = IF prog = "helsana"
                              THEN discover_step_items(landing)
                              ELSE STEP_ITEMS
             /\ queue' = discover_offsets(landing)
             /\ enqueued' = discover_offsets(landing)
             /\ declared' = Range(discover_offsets(landing))
             /\ pc' = "loop"
  /\ UNCHANGED <<fixedVars, politeVars, seen_offsets, seen_hashes, seen_urls,
                 results, html_by_offset, phase, off, attempt, delay,
                 last_off, cards_last, outVars, dispatched, posted, fetched, reqs,
                 throttles, stepped>>

(* ------------------- the queue loop (both scripts) -------------------- *)
\* helsana 157-165 / fenaco 193-201: pop, skip if seen, mark, request
Pop ==
  /\ AtLoopBody
  /\ queue' = Tail(queue)
  /\ IF Head(queue) \in seen_offsets
     THEN UNCHANGED <<seen_offsets, off, attempt, delay, reqs, throttles,
                      dispatched, posted, pc, politeVars>>
     ELSE /\ seen_offsets' = MarkSeen(seen_offsets, Head(queue))
          /\ CallPolitePost(Head(queue))
  /\ UNCHANGED <<fixedVars, setupVars, enqueued, seen_hashes, seen_urls, results, html_by_offset,
                 phase, last_off, cards_last, outVars, fetched, declared,
                 stepped>>

(* ---------------------------- polite_post ----------------------------- *)
\* A 429/503 answer: sleep, escalate the delay, next attempt; after the
\* last attempt the loop falls through to `raise RuntimeError`.
Throttled ==
  /\ InPolitePost
  /\ \E status \in Throttling, ra \in env.hints, u \in env.draws :
       /\ reqs' = reqs + 1
       /\ throttles' = throttles + 1
       /\ retry_after' = ra
       /\ wait' = rate_limit_wait(ra, delay, u)
       /\ delay' = ThrottleDelay(delay)
       /\ IF IsLastAttempt(attempt)
          THEN pc' = "aborted" /\ attempt' = attempt /\ slept' = slept
          ELSE /\ pc' = "post"
               /\ attempt' = attempt + 1
               /\ \E v \in env.draws :
                    slept' = PreSleep(ThrottleDelay(delay), v)
  /\ UNCHANGED <<fixedVars, setupVars, enqueued, loopVars, phase, off, outVars, dispatched, posted,
                 fetched, declared, stepped>>

\* helsana 106: raise_for_status() raises, nothing catches it
HelsanaHttpError ==
  /\ InPolitePost
  /\ prog = "helsana"
  /\ \E status \in HttpErrors :
       /\ reqs' = reqs + 1
       /\ pc' = "aborted"
  /\ UNCHANGED <<fixedVars, setupVars, politeVars, enqueued, loopVars, phase, off, attempt, delay, outVars,
                 dispatched, posted, fetched, throttles, declared, stepped>>

\* fenaco 158-165: the error is logged and the request retried; it is
\* re-raised on the last attempt
FenacoHttpError ==
  /\ InPolitePost
  /\ prog = "fenaco"
  /\ \E status \in HttpErrors :
       /\ reqs' = reqs + 1
       /\ IF IsLastAttempt(attempt)
          THEN pc' = "aborted" /\ UNCHANGED <<attempt, delay, slept>>
          ELSE /\ pc' = "post"
               /\ attempt' = attempt + 1
               /\ delay' = ErrorDelay(delay)
               /\ \E v \in env.draws :
                    slept' = PreSleep(ErrorDelay(delay), v)
  /\ wait' = 0
  /\ retry_after' = NoHeader
  /\ UNCHANGED <<fixedVars, setupVars, enqueued, loopVars, phase, off, outVars, dispatched, posted,
                 fetched, throttles, declared, stepped>>

(* --------------------------- helsana main ----------------------------- *)
\* Mutant of StepForward: the step is not added.
StepForwardNowhere(o, by) == o

\* helsana 198-201: off + step_items, unless visited or pending
StepForward(o, by) == o + by

\* Mutant of HelsanaBody: an identical page is skipped with `continue`
\* where the script has `break`.
HelsanaBodyContinue(page) ==
  IF page \in seen_hashes
  THEN [hashes |-> seen_hashes, urls |-> seen_urls, res |-> results,
        q |-> queue, added |-> <<>>, stepped |-> {}, pc |-> "loop"]
  ELSE LET m == helsana_merge(helsana_parse_teasers(page, off), seen_urls,
                              results, 0)
           newly == Newly(page, seen_offsets, queue)
           q1 == Enqueue(queue, newly)
           nxt == StepForward(off, step_items)
           push == nxt \notin seen_offsets /\ nxt \notin Range(q1)
       IN IF m[3] = 0
          THEN [hashes |-> seen_hashes \cup {page}, urls |-> m[1],
                res |-> m[2], q |-> queue, added |-> <<>>, stepped |-> {},
                pc |-> "emit"]
          ELSE [hashes |-> seen_hashes \cup {page}, urls |-> m[1],
                res |-> m[2],
                q |-> IF push THEN Enqueue(q1, <<nxt>>) ELSE q1,
                added |-> IF push THEN Append(newly, nxt) ELSE newly,
                stepped |-> IF push THEN {nxt} ELSE {},
                pc |-> "loop"]

\* Mutant of HelsanaBody: a first page without new records does not stop
\* the loop.
HelsanaBodySparingFirst(page) ==
  IF page \in seen_hashes
  THEN [hashes |-> seen_hashes, urls |-> seen_urls, res |-> results,
        q |-> queue, added |-> <<>>, stepped |-> {}, pc |-> "emit"]
  ELSE LET m == helsana_merge(helsana_parse_teasers(page, off), seen_urls,
                              results, 0)
           newly == Newly(page, seen_offsets, queue)
           q1 == Enqueue(queue, newly)
           nxt == StepForward(off, step_items)
           push == nxt \notin seen_offsets /\ nxt \notin Range(q1)
       IN IF m[3] = 0 /\ seen_hashes # {}
          THEN [hashes |-> seen_hashes \cup {page}, urls |-> m[1],
                res |-> m[2], q |-> queue, added |-> <<>>, stepped |-> {},
                pc |-> "emit"]
          ELSE [hashes |-> seen_hashes \cup {page}, urls |-> m[1],
                res |-> m[2],
                q |-> IF push THEN Enqueue(q1, <<nxt>>) ELSE q1,
                added |-> IF push THEN Append(newly, nxt) ELSE newly,
                stepped |-> IF push THEN {nxt} ELSE {},
                pc |-> "loop"]

\* helsana 167-201: the rest of the loop body, once polite_post returned
\* `page`.  Returns the new loop state and where the loop goes.
HelsanaBody(page) ==
  IF page \in seen_hashes
  THEN [hashes |-> seen_hashes, urls |-> seen_urls, res |-> results,
        q |-> queue, added |-> <<>>, stepped |-> {}, pc |-> "emit"]
  ELSE LET m == helsana_merge(helsana_parse_teasers(page, off), seen_urls,
                              results, 0)
           newly == Newly(page, seen_offsets, queue)
           q1 == Enqueue(queue, newly)
           nxt == StepForward(off, step_items)
           push == nxt \notin seen_offsets /\ nxt \notin Range(q1)
       IN IF m[3] = 0
          THEN [hashes |-> seen_hashes \cup {page}, urls |-> m[1],
                res |-> m[2], q |-> queue, added |-> <<>>, stepped |-> {},
                pc |-> "emit"]
          ELSE [hashes |-> seen_hashes \cup {page}, urls |-> m[1],
                res |-> m[2],
                q |-> IF push THEN Enqueue(q1, <<nxt>>) ELSE q1,
                added |-> IF push THEN Append(newly, nxt) ELSE newly,
                stepped |-> IF push THEN {nxt} ELSE {},
                pc |-> "loop"]

\* helsana 98-107 with status 200, then 167-201
HelsanaPage ==
  /\ InPolitePost
  /\ prog = "helsana"
  /\ \E page \in ServerPages(off) \cap env.site :
       LET b == HelsanaBody(page) IN
       /\ reqs' = reqs + 1
       /\ fetched' = Append(fetched, <<off, page>>)
       /\ declared' = declared \cup Range(discover_offsets(page))
       /\ seen_hashes' = b.hashes
       /\ seen_urls' = b.urls
       /\ results' = b.res
       /\ queue' = b.q
       /\ enqueued' = enqueued \o b.added
       /\ stepped' = stepped \cup b.stepped
       /\ pc' = b.pc
  /\ UNCHANGED <<fixedVars, setupVars, politeVars, seen_offsets, html_by_offset, phase, off,
                 attempt, delay, last_off, cards_last, outVars, dispatched, posted,
                 throttles>>

\* helsana 203-206
HelsanaWrite ==
  /\ AtWrite
  /\ prog = "helsana"
  /\ data' = results
  /\ written' = TRUE
  /\ pc' = "done"
  /\ UNCHANGED <<fixedVars, setupVars, politeVars, enqueued, loopVars, phase, off, attempt, delay,
                 dispatched, posted, fetched, reqs, throttles, declared, stepped>>

(* ---------------------------- fenaco main ----------------------------- *)
Store(h, o, page) ==
  [x \in DOMAIN h \cup {o} |-> IF x = o THEN page ELSE h[x]]

\* fenaco 153-160 with status 200 in the queue loop, then 202-214
FenacoPage ==
  /\ InPolitePost
  /\ prog = "fenaco"
  /\ phase = "queue"
  /\ \E page \in ServerPages(off) \cap env.site :
       /\ reqs' = reqs + 1
       /\ fetched' = Append(fetched, <<off, page>>)
       /\ declared' = declared \cup Range(discover_offsets(page))
       /\ html_by_offset' = Store(html_by_offset, off, page)
       /\ queue' = Enqueue(queue, Newly(page, seen_offsets, queue))
       /\ enqueued' = enqueued \o Newly(page, seen_offsets, queue)
  /\ pc' = "loop"
  /\ UNCHANGED <<fixedVars, setupVars, politeVars, seen_offsets, seen_hashes, seen_urls, results,
                 phase, off, attempt, delay, last_off, cards_last, outVars,
                 dispatched, posted, throttles, stepped>>

\* `while queue` ends (helsana 157, fenaco 193); fenaco 217-221 then
\* prepares the safety step
LoopExit ==
  /\ AtLoopEnd
  /\ IF prog = "fenaco" /\ DOMAIN html_by_offset # {}
     THEN /\ last_off' = LastOff(html_by_offset)
          /\ cards_last' = count_cards(html_by_offset[LastOff(html_by_offset)])
          /\ pc' = "safety"
     ELSE UNCHANGED <<last_off, cards_last>> /\ pc' = "emit"
  /\ UNCHANGED <<fixedVars, setupVars, politeVars, enqueued, queue, seen_offsets, seen_hashes, seen_urls,
                 results, html_by_offset, phase, off, attempt, delay,
                 outVars, dispatched, posted, fetched, reqs, throttles, declared,
                 stepped>>

\* Mutant of SafetyGoesOn: the limit is inclusive.
SafetyGoesOnAtLimit(cards, last) ==
  cards >= STEP_ITEMS /\ last <= SAFETY_LIMIT

\* fenaco 222: `while cards_last >= STEP_ITEMS and last_off < 2000`
SafetyGoesOn(cards, last) == cards >= STEP_ITEMS /\ last < SAFETY_LIMIT

\* fenaco 222-226: the safety loop's test and its request
FenacoSafetyStep ==
  /\ AtSafetyTest
  /\ IF SafetyGoesOn(cards_last, last_off)
     THEN /\ CallPolitePost(last_off + STEP_ITEMS)
          /\ phase' = "safety"
          /\ stepped' = stepped \cup {last_off + STEP_ITEMS}
     ELSE /\ pc' = "emit"
          /\ UNCHANGED <<phase, off, attempt, delay, reqs, throttles,
                         dispatched, posted, stepped, politeVars>>
  /\ UNCHANGED <<fixedVars, setupVars, enqueued, loopVars, outVars, fetched, declared>>

\* fenaco 153-160 with status 200 in the safety loop, then 227-233
FenacoSafetyPage ==
  /\ InPolitePost
  /\ prog = "fenaco"
  /\ phase = "safety"
  /\ \E page \in ServerPages(off) \cap env.site :
       /\ reqs' = reqs + 1
       /\ fetched' = Append(fetched, <<off, page>>)
       /\ declared' = declared \cup Range(discover_offsets(page))
       /\ IF count_cards(page) = 0
          THEN /\ pc' = "emit"
               /\ UNCHANGED <<html_by_offset, last_off, cards_last>>
          ELSE /\ html_by_offset' = Store(html_by_offset, off, page)
               /\ last_off' = off
               /\ cards_last' = count_cards(page)
               /\ pc' = "safety"
  /\ UNCHANGED <<fixedVars, setupVars, politeVars, enqueued, queue, seen_offsets, seen_hashes, seen_urls,
                 results, phase, off, attempt, delay, outVars, dispatched, posted,
                 throttles, stepped>>

\* fenaco 235-245
FenacoWrite ==
  /\ AtWrite
  /\ prog = "fenaco"
  /\ data' = fenaco_dedup(fenaco_all_jobs(SortedSeq(DOMAIN html_by_offset),
                                          html_by_offset))
  /\ written' = TRUE
  /\ pc' = "done"
  /\ UNCHANGED <<fixedVars, setupVars, politeVars, enqueued, loopVars, phase, off, attempt, delay,
                 dispatched, posted, fetched, reqs, throttles, declared, stepped>>

Next ==
  \/ LandingError
  \/ Landing
  \/ Pop
  \/ Throttled
  \/ HelsanaHttpError
  \/ FenacoHttpError
  \/ HelsanaPage
  \/ HelsanaWrite
  \/ FenacoPage
  \/ LoopExit
  \/ FenacoSafetyStep
  \/ FenacoSafetyPage
  \/ FenacoWrite

Spec == Init /\ [][Next]_vars

DetailSpec == DetailInit /\ [][Next]_vars

\* The scripts on a site whose landing page declares an offset close to
\* fenaco's safety limit.
SafetyEnv ==
  [landings |-> FarLandings, site |-> {PgE, PgB, PgF},
   forms |-> {<<PagingForm>>}, hints |-> {NoHeader}, draws |-> {0}]
SafetyInit == InitIn(SafetyEnv)
SafetySpec == SafetyInit /\ [][Next]_vars

\* The start of main() on every short landing text: the landing page is
\* loaded and scanned for offsets.
ScanInit == InitOn(HarvestEnv, {PageOfText(t) : t \in Texts})
ScanNext == Landing
ScanSpec == ScanInit /\ [][ScanNext]_vars

Terminated == pc \in {"done", "aborted"}

(* =========================== bern.py: main ============================ *)
\* The state before bern's main() runs.
BernInit ==
  /\ prog = "bern"
  /\ env = BernEnv
  /\ landing \in BernLandings
  /\ forms = landing.forms
  /\ action = ""
  /\ payload = {}
  /\ step_items = 0
  /\ queue = <<>>
  /\ seen_offsets = {}
  /\ seen_hashes = {}
  /\ seen_urls = {}
  /\ results = <<>>
  /\ html_by_offset = EmptyMap
  /\ pc = "init"
  /\ phase = "queue"
  /\ off = 0
  /\ attempt = 0
  /\ delay = 0
  /\ slept = 0
  /\ wait = 0
  /\ retry_after = NoHeader
  /\ enqueued = <<>>
  /\ last_off = 0
  /\ cards_last = 0
  /\ written = FALSE
  /\ data = <<>>
  /\ dispatched = <<>>
  /\ posted = <<>>
  /\ fetched = <<>>
  /\ reqs = 0
  /\ throttles = 0
  /\ declared = {}
  /\ stepped = {}
  /\ all_jobs = <<>>
  /\ method = ""
  /\ step = 0
  /\ total_pages = 0
  /\ tests = <<>>
  /\ strategies = <<>>
  /\ field_ix = 0
  /\ strat_ix = 0
  /\ worked = NoCombo
  /\ start = 0
  /\ submitted = <<>>
  /\ raised = FALSE
  /\ stdout = <<>>
  /\ HirslandenIdle
  /\ ScriptsIdle
  /\ for_ix = 0
  /\ detailed = <<>>

\* What bern.py never touches.
harvestVars ==
  <<env, forms, step_items, queue, seen_offsets, seen_hashes, seen_urls,
    results, html_by_offset, phase, off, attempt, delay, slept, wait,
    retry_after, enqueued, last_off, cards_last, dispatched, posted, fetched,
    reqs, throttles, declared, stepped, hirslandenVars, scriptVars>>

formVars == <<method, action, payload, step, total_pages, tests, strategies>>
probeVars == <<field_ix, strat_ix, worked>>

\* scrape_listing 139-140: the landing page is answered with an HTTP error
BernLandingError ==
  /\ prog = "bern"
  /\ pc = "init"
  /\ \E status \in Throttling \cup HttpErrors : pc' = "aborted"
  /\ UNCHANGED <<prog, landing, harvestVars, formVars, probeVars, all_jobs,
                 start, submitted, raised, stdout, detailed, for_ix, outVars>>

\* scrape_listing 139-199: the landing page is loaded, the form chosen,
\* the first page's jobs gathered, the fields and strategies listed
BernLanding ==
  /\ prog = "bern"
  /\ pc = "init"
  /\ total_pages' = landing.total
  /\ IF bern_form(landing) = 0
     THEN /\ pc' = "aborted"
          /\ stdout' = Append(stdout, "Detected total pages")
          /\ UNCHANGED <<method, action, payload, step, tests, strategies,
                         field_ix, strat_ix, all_jobs>>
     ELSE LET form_el == landing.forms[bern_form(landing)] IN
          /\ payload' = bern_payload(form_el)
          /\ method' = bern_method(form_el.method)
          /\ action' = bern_action(form_el.action)
          /\ step' = IF landing.btn_step = 0 THEN DEFAULT_STEP
                     ELSE landing.btn_step
          /\ all_jobs' = setdefault_all(<<>>,
                           extract_jobs_from_page(landing.anchors))
          /\ tests' = bern_tests(landing, form_el)
          /\ strategies' = bern_strategies(bern_method(form_el.method),
                                           bern_action(form_el.action))
          /\ field_ix' = 1
          /\ strat_ix' = 1
          /\ stdout' = stdout \o <<"Detected total pages",
                                    "Trying pagination fields">>
          /\ pc' = "probe"
  /\ UNCHANGED <<prog, landing, harvestVars, worked, start, submitted,
                 raised, detailed, for_ix, outVars>>

\* The submission of the probe at hand (scrape_listing 205-208).
ProbeSubmission ==
  Submission(strategies[strat_ix].meth, strategies[strat_ix].act, payload,
             tests[field_ix], step)

\* scrape_listing 203-227: the probe found nothing: next strategy, next
\* field, or, when none is left, RuntimeError
ProbeOn ==
  IF strat_ix < Len(strategies)
  THEN /\ strat_ix' = strat_ix + 1
       /\ UNCHANGED field_ix
       /\ pc' = "probe"
  ELSE IF field_ix < Len(tests)
  THEN /\ field_ix' = field_ix + 1
       /\ strat_ix' = 1
       /\ pc' = "probe"
  ELSE /\ UNCHANGED <<field_ix, strat_ix>>
       /\ pc' = "aborted"

\* scrape_listing 207-210: submit() raises, the probe is skipped
BernProbeFails ==
  /\ prog = "bern"
  /\ pc = "probe"
  /\ submitted' = Append(submitted, ProbeSubmission)
  /\ raised' = TRUE
  /\ ProbeOn
  /\ UNCHANGED <<prog, landing, harvestVars, formVars, worked, all_jobs,
                 start, stdout, detailed, for_ix, outVars>>

\* scrape_listing 207-230: the probe is answered with a page
BernProbePage ==
  /\ prog = "bern"
  /\ pc = "probe"
  /\ \E page \in env.site :
       LET page_jobs == extract_jobs_from_page(page) IN
       /\ submitted' = Append(submitted, ProbeSubmission)
       /\ UNCHANGED raised
       /\ IF new_jobs(all_jobs, page_jobs) # <<>>
          THEN /\ worked' = [field |-> tests[field_ix],
                             meth |-> strategies[strat_ix].meth,
                             act |-> strategies[strat_ix].act]
               /\ all_jobs' = setdefault_all(all_jobs, page_jobs)
               /\ start' = step * 2
               /\ stdout' = Append(stdout, "Pagination works")
               /\ pc' = "crawl"
               /\ UNCHANGED <<field_ix, strat_ix>>
          ELSE /\ ProbeOn
               /\ UNCHANGED <<worked, all_jobs, start, stdout>>
  /\ UNCHANGED <<prog, landing, harvestVars, formVars, detailed, for_ix, outVars>>

\* scrape_listing 233-234: the page count is known and reached
PastLastPage == total_pages # 0 /\ (start \div step) + 1 > total_pages

BernCrawlEnd ==
  /\ prog = "bern"
  /\ pc = "crawl"
  /\ PastLastPage
  /\ pc' = "emit"
  /\ UNCHANGED <<prog, landing, harvestVars, formVars, probeVars, all_jobs,
                 start, submitted, raised, stdout, detailed, for_ix, outVars>>

CrawlSubmission ==
  Submission(worked.meth, worked.act, payload, worked.field, start)

\* scrape_listing 235-239: submit() raises, the loop ends; nothing is
\* printed
BernCrawlFails ==
  /\ prog = "bern"
  /\ pc = "crawl"
  /\ ~PastLastPage
  /\ submitted' = Append(submitted, CrawlSubmission)
  /\ raised' = TRUE
  /\ pc' = "emit"
  /\ UNCHANGED <<prog, landing, harvestVars, formVars, probeVars, all_jobs,
                 start, stdout, detailed, for_ix, outVars>>

\* scrape_listing 235-254: a further page
BernCrawlPage ==
  /\ prog = "bern"
  /\ pc = "crawl"
  /\ ~PastLastPage
  /\ \E page \in env.site :
       LET page_jobs == extract_jobs_from_page(page) IN
       /\ submitted' = Append(submitted, CrawlSubmission)
       /\ UNCHANGED raised
       /\ all_jobs' = setdefault_all(all_jobs, page_jobs)
       /\ IF new_jobs(all_jobs, page_jobs) = <<>>
          THEN pc' = "emit" /\ UNCHANGED start
          ELSE pc' = "crawl" /\ start' = start + step
  /\ UNCHANGED <<prog, landing, harvestVars, formVars, probeVars, stdout,
                 detailed, for_ix, outVars>>

\* {**a, **b}: the items of a, replaced and extended by those of b
DictMerge(a, b) ==
  [k \in DOMAIN a \cup DOMAIN b |-> IF k \in DOMAIN b THEN b[k] ELSE a[k]]

\* fetch_detail 258-291: what a detail page of u can yield; "" is None.
\* The location and the start text are left at None.
Details(u) ==
  {[title |-> t, location |-> "", start |-> "", detail_url |-> u] :
     t \in {"", "Title"}}

\* main 303: the detail is merged into the job and appended
DetailFetched(list, j, d) == Append(list, DictMerge(j, d))

\* Mutant of DetailRaised: a job whose detail fails is left out.
DetailRaisedDropping(list, j) == list

\* main 305-306: the job is appended with the error
DetailRaised(list, j) == Append(list, DictMerge(j, [error |-> "str(e)"]))

\* scrape_listing 256, main 294-300: jobs_overview.json is written
BernWrite ==
  /\ prog = "bern"
  /\ pc = "emit"
  /\ data' = all_jobs
  /\ written' = TRUE
  /\ stdout' = Append(stdout, "Overview")
  /\ pc' = "detail"
  /\ for_ix' = 0
  /\ UNCHANGED <<prog, landing, harvestVars, formVars, probeVars, all_jobs,
                 start, submitted, raised, detailed>>

\* main 301-306: the detail of the next job is fetched, or fetching it
\* raises and the job is kept with an error field
BernDetail ==
  /\ prog = "bern"
  /\ pc = "detail"
  /\ for_ix < Len(data)
  /\ LET j == data[for_ix + 1] IN
       \/ \E d \in Details(j.detail_url) :
            detailed' = DetailFetched(detailed, j, d)
       \/ detailed' = DetailRaised(detailed, j)
  /\ for_ix' = for_ix + 1
  /\ UNCHANGED <<prog, landing, harvestVars, formVars, probeVars, all_jobs,
                 start, submitted, raised, stdout, outVars, pc>>

\* main 307-309: jobs_detailed.json is written
BernFinish ==
  /\ prog = "bern"
  /\ pc = "detail"
  /\ for_ix = Len(data)
  /\ stdout' = Append(stdout, "Detailed")
  /\ pc' = "done"
  /\ UNCHANGED <<prog, landing, harvestVars, formVars, probeVars, all_jobs,
                 start, submitted, raised, detailed, for_ix, outVars>>

BernNext ==
  \/ BernLandingError
  \/ BernLanding
  \/ BernProbeFails
  \/ BernProbePage
  \/ BernCrawlEnd
  \/ BernCrawlFails
  \/ BernCrawlPage
  \/ BernWrite
  \/ BernDetail
  \/ BernFinish

BernSpec == BernInit /\ [][BernNext]_vars


(* ======================== hirslanden.py: main ========================= *)
\* A page is what the script reads of it: the banner "Showing a to b of
\* total Jobs" (or none), the jobs extract_jobs yields, in order, and the
\* URL extract_next_url finds ("" for None).
HIRSLANDEN_START == "/search/"
HUrls == {HIRSLANDEN_START, "/search/?startrow=2"}

DEFAULT_PER_PAGE == 50

\* The pages of the startrow fallback the model follows at most.
MaxRounds == 4

J1 == [title |-> "t1", url |-> "j1"]
J2 == [title |-> "t2", url |-> "j2"]

NoBanner == [a |-> 0, b |-> 0, total |-> 0, shown |-> FALSE]
Banner(a, b, t) == [a |-> a, b |-> b, total |-> t, shown |-> TRUE]
HBanners == {NoBanner, Banner(1, 2, 3), Banner(1, 1, 2)}

HPages ==
  [banner : HBanners, jobs : {<<>>, <<J1>>, <<J1, J2>>},
   next : HUrls \cup {""}]

HirslandenEnv ==
  [landings |-> {}, site |-> HPages, forms |-> {<<>>}, hints |-> {NoHeader},
   draws |-> {0}]

\* parse_total_and_window: (total, window), 0 for None
parse_total_and_window(page) ==
  IF ~page.banner.shown THEN [total |-> 0, window |-> 0]
  ELSE [total |-> page.banner.total,
        window |-> IF page.banner.b >= page.banner.a
                   THEN page.banner.b - page.banner.a + 1
                   ELSE 0]

\* dedupe: the first job of each (title, url) is kept, in order
RECURSIVE dedupe_from(_, _, _)
dedupe_from(jobs, seen, out) ==
  IF jobs = <<>> THEN out
  ELSE LET key == <<Head(jobs).title, Head(jobs).url>> IN
       IF key \in seen THEN dedupe_from(Tail(jobs), seen, out)
       ELSE dedupe_from(Tail(jobs), seen \cup {key}, Append(out, Head(jobs)))

dedupe(jobs) == dedupe_from(jobs, {}, <<>>)

\* Mutant of AlreadyVisited: no URL counts as visited.
NeverVisited(u, visited) == FALSE

\* main 191: `if url in visited_pages`
AlreadyVisited(u, visited) == u \in visited

\* main 225-227: the first startrow of the fallback
first_startrow(n, pp) ==
  IF (n \div pp) * pp < n THEN (n \div pp) * pp + pp ELSE (n \div pp) * pp

\* The state before hirslanden's main() runs.
HirslandenInit ==
  /\ prog = "hirslanden"
  /\ env = HirslandenEnv
  /\ landing = PgE
  /\ forms = <<>>
  /\ action = ""
  /\ payload = <<>>
  /\ step_items = 0
  /\ queue = <<>>
  /\ seen_offsets = {}
  /\ seen_hashes = {}
  /\ seen_urls = {}
  /\ results = <<>>
  /\ html_by_offset = EmptyMap
  /\ pc = "init"
  /\ phase = "queue"
  /\ off = 0
  /\ attempt = 0
  /\ delay = 0
  /\ slept = 0
  /\ wait = 0
  /\ retry_after = NoHeader
  /\ enqueued = <<>>
  /\ last_off = 0
  /\ cards_last = 0
  /\ written = FALSE
  /\ data = <<>>
  /\ dispatched = <<>>
  /\ posted = <<>>
  /\ fetched = <<>>
  /\ reqs = 0
  /\ throttles = 0
  /\ declared = {}
  /\ stepped = {}
  /\ all_jobs = <<>>
  /\ method = ""
  /\ step = 0
  /\ total_pages = 0
  /\ tests = <<>>
  /\ strategies = <<>>
  /\ field_ix = 0
  /\ strat_ix = 0
  /\ worked = NoCombo
  /\ start = 0
  /\ submitted = <<>>
  /\ raised = FALSE
  /\ stdout = <<>>
  /\ detailed = <<>>
  /\ ScriptsIdle
  /\ for_ix = 0
  /\ HirslandenIdle

\* What hirslanden.py never touches.
otherVars ==
  <<prog, env, landing, forms, action, payload, step_items, queue,
    seen_offsets, seen_hashes, seen_urls, results, html_by_offset, phase,
    off, attempt, delay, slept, wait, retry_after, enqueued, last_off,
    cards_last, dispatched, posted, fetched, reqs, throttles, declared,
    stepped, method, step, total_pages, tests, strategies, field_ix,
    strat_ix, worked, start, submitted, raised, stdout, detailed,
    scriptVars, for_ix>>

linkVars == <<url, soup, next_url, visited_pages, extracted>>
rowVars == <<per_page, startrow, empty_runs, stale_runs, rounds>>

\* get_soup 43-44: the request fails or is answered with an error status;
\* the exception ends main() (first page 182, next page 211, fallback 235)
HirslandenLoadError ==
  /\ prog = "hirslanden"
  /\ pc \in {"init", "load", "rowload"}
  /\ pc' = "aborted"
  /\ UNCHANGED <<otherVars, linkVars, rowVars, total, window, all_jobs,
                 outVars>>

\* main 181-188: the first page is loaded
HirslandenFirstPage ==
  /\ prog = "hirslanden"
  /\ pc = "init"
  /\ \E page \in env.site :
       /\ soup' = page
       /\ total' = parse_total_and_window(page).total
       /\ window' = parse_total_and_window(page).window
  /\ url' = HIRSLANDEN_START
  /\ pc' = "page"
  /\ UNCHANGED <<otherVars, next_url, visited_pages, extracted, rowVars,
                 all_jobs, outVars>>

\* main 189-207: one round of the next-link loop, up to the request for
\* the next page
HirslandenPage ==
  /\ prog = "hirslanden"
  /\ pc = "page"
  /\ IF AlreadyVisited(url, visited_pages)
     THEN /\ pc' = "fallback"
          /\ UNCHANGED <<visited_pages, extracted, all_jobs, next_url>>
     ELSE /\ visited_pages' = visited_pages \cup {url}
          /\ extracted' = Append(extracted, url)
          /\ all_jobs' = all_jobs \o soup.jobs
          /\ next_url' = soup.next
          /\ pc' = IF soup.next = "" THEN "fallback"
                   ELSE IF total # 0 /\ Len(all_jobs') >= total
                   THEN "fallback"
                   ELSE "load"
  /\ UNCHANGED <<otherVars, url, soup, rowVars, total, window, outVars>>

\* main 210-213: the next page is loaded
HirslandenNextPage ==
  /\ prog = "hirslanden"
  /\ pc = "load"
  /\ \E page \in env.site : soup' = page
  /\ url' = next_url
  /\ pc' = "page"
  /\ UNCHANGED <<otherVars, next_url, visited_pages, extracted, rowVars,
                 total, window, all_jobs, outVars>>

\* main 216-230: the jobs are deduplicated; the fallback starts if the
\* site's total is not reached
HirslandenFallback ==
  /\ prog = "hirslanden"
  /\ pc = "fallback"
  /\ all_jobs' = dedupe(all_jobs)
  /\ IF total # 0 /\ Len(all_jobs') < total
     THEN /\ per_page' = IF window # 0 THEN window ELSE DEFAULT_PER_PAGE
          /\ startrow' = first_startrow(Len(all_jobs'), per_page')
          /\ empty_runs' = 0
          /\ pc' = "rows"
     ELSE /\ UNCHANGED <<per_page, startrow, empty_runs>>
          /\ pc' = "emit"
  /\ UNCHANGED <<otherVars, linkVars, stale_runs, rounds, total, window,
                 outVars>>

\* main 231-233: the test of the fallback loop
HirslandenRowsTest ==
  /\ prog = "hirslanden"
  /\ pc = "rows"
  /\ (total = 0 \/ Len(all_jobs) < total) => rounds < MaxRounds
  /\ pc' = IF total = 0 \/ Len(all_jobs) < total THEN "rowload" ELSE "emit"
  /\ rounds' = IF pc' = "rowload" THEN rounds + 1 ELSE rounds
  /\ UNCHANGED <<otherVars, linkVars, per_page, startrow, empty_runs,
                 stale_runs, total, window, all_jobs, outVars>>

\* main 235-258: the page at startrow is loaded and processed
HirslandenRowsPage ==
  /\ prog = "hirslanden"
  /\ pc = "rowload"
  /\ \E page \in env.site :
       LET pg == parse_total_and_window(page)
           total1 == IF pg.total # 0 /\ total = 0 THEN pg.total ELSE total
           per_page1 == IF pg.window # 0 /\ pg.window # per_page
                        THEN pg.window ELSE per_page
           jobs1 == IF page.jobs = <<>> THEN all_jobs
                    ELSE dedupe(all_jobs \o page.jobs)
           runs1 == IF page.jobs = <<>> THEN empty_runs + 1 ELSE 0
       IN /\ soup' = page
          /\ total' = total1
          /\ per_page' = per_page1
          /\ all_jobs' = jobs1
          /\ empty_runs' = runs1
          /\ stale_runs' = IF Len(jobs1) = Len(all_jobs) THEN stale_runs + 1
                           ELSE 0
          /\ IF page.jobs = <<>> /\ runs1 >= 2
             THEN pc' = "emit" /\ UNCHANGED startrow
             ELSE IF total1 # 0 /\ Len(jobs1) >= total1
             THEN pc' = "emit" /\ UNCHANGED startrow
             ELSE pc' = "rows" /\ startrow' = startrow + per_page1
  /\ UNCHANGED <<otherVars, url, next_url, visited_pages, extracted, rounds,
                 window, outVars>>

\* main 260-265: the output file is written
HirslandenWrite ==
  /\ prog = "hirslanden"
  /\ pc = "emit"
  /\ all_jobs' = dedupe(all_jobs)
  /\ data' = all_jobs'
  /\ written' = TRUE
  /\ pc' = "done"
  /\ UNCHANGED <<otherVars, linkVars, rowVars, total, window>>

HirslandenNext ==
  \/ HirslandenLoadError
  \/ HirslandenFirstPage
  \/ HirslandenPage
  \/ HirslandenNextPage
  \/ HirslandenFallback
  \/ HirslandenRowsTest
  \/ HirslandenRowsPage
  \/ HirslandenWrite

HirslandenSpec == HirslandenInit /\ [][HirslandenNext]_vars


(* ==================== lidl, migros, post, schindler ==================== *)
\* What lidl.py, migros.py, post.py and schindler.py never touch.
restVars ==
  <<prog, env, landing, forms, action, payload, step_items, queue,
    seen_offsets, seen_hashes, results, html_by_offset, phase, off, delay,
    slept, wait, retry_after, enqueued, last_off, cards_last, dispatched,
    posted, fetched, reqs, throttles, declared, stepped, method, total_pages,
    tests, strategies, field_ix, strat_ix, worked, detailed, submitted,
    raised, url, soup, next_url, visited_pages, window, per_page, empty_runs,
    extracted, stale_runs, rounds>>

\* The state before the main() of script p runs, on a site of environment e.
ScriptInit(p, e) ==
  /\ prog = p
  /\ env = e
  /\ landing = PgE
  /\ forms = <<>>
  /\ action = ""
  /\ payload = <<>>
  /\ step_items = 0
  /\ queue = <<>>
  /\ seen_offsets = {}
  /\ seen_hashes = {}
  /\ seen_urls = {}
  /\ results = <<>>
  /\ html_by_offset = EmptyMap
  /\ pc = "init"
  /\ phase = "queue"
  /\ off = 0
  /\ attempt = 0
  /\ delay = 0
  /\ slept = 0
  /\ wait = 0
  /\ retry_after = NoHeader
  /\ enqueued = <<>>
  /\ last_off = 0
  /\ cards_last = 0
  /\ written = FALSE
  /\ data = <<>>
  /\ dispatched = <<>>
  /\ posted = <<>>
  /\ fetched = <<>>
  /\ reqs = 0
  /\ throttles = 0
  /\ declared = {}
  /\ stepped = {}
  /\ all_jobs = <<>>
  /\ method = ""
  /\ step = 0
  /\ total_pages = 0
  /\ tests = <<>>
  /\ strategies = <<>>
  /\ field_ix = 0
  /\ strat_ix = 0
  /\ worked = NoCombo
  /\ start = 0
  /\ submitted = <<>>
  /\ raised = FALSE
  /\ stdout = <<>>
  /\ detailed = <<>>
  /\ for_ix = 0
  /\ HirslandenIdle
  /\ ScriptsIdle

(* ============================== lidl.py =============================== *)
LIDL_MAX_RETRIES == 5
INITIAL_BACKOFF == 1
RETRY_STATUS == {429, 500, 502, 503, 504}

\* The last page number on which the site still answers with hits.
MaxLidlPage == 3

\* hits of the search API; "" is an absent or empty field
L1 == [jobId |-> "a", reference |-> ""]
L1r == [jobId |-> "a", reference |-> "r"]
L2 == [jobId |-> "", reference |-> "r"]
L3 == [jobId |-> "", reference |-> ""]
LidlHits == {<<L1, L2>>, <<L1r, L3>>, <<L3>>}

\* data["result"] of an answer that parses: the hits and the count, 0 if
\* the count is absent
LidlResults ==
  {[hits |-> h, count |-> c] : h \in LidlHits \cup {<<>>}, c \in {0, 7}}

\* fetch_page 55-62: the status of an attempt that fails: 0 for no answer,
\* a status of RETRY_STATUS, another error status, 200 with a body that is
\* no JSON
LidlFailures == {0, 200, 404} \cup RETRY_STATUS

LidlEnv == [site |-> LidlResults, failures |-> LidlFailures]

\* main 100-112: a hit without id is kept, a hit with an id is kept once
RECURSIVE lidl_dedupe(_, _, _)
lidl_dedupe(hits, ids, acc) ==
  IF hits = <<>> THEN [hits |-> acc, ids |-> ids]
  ELSE LET h == Head(hits)
           jid == IF h.jobId # "" THEN h.jobId ELSE h.reference IN
       IF jid = "" THEN lidl_dedupe(Tail(hits), ids, Append(acc, h))
       ELSE IF jid \in ids THEN lidl_dedupe(Tail(hits), ids, acc)
       ELSE lidl_dedupe(Tail(hits), ids \cup {jid}, Append(acc, h))

\* Mutant of GivesUp: one more attempt is made.
GivesUpLater(a) == a >= LIDL_MAX_RETRIES + 1

\* fetch_page 63: the attempt that failed was the last one
GivesUp(a) == a >= LIDL_MAX_RETRIES

\* fetch_page 69: backoff *= 2
NextBackoff(b) == b * 2

LidlInit == ScriptInit("lidl", LidlEnv)

lidlRest ==
  <<restVars, mergeVars, schindlerVars, for_ix, total, startrow, all_jobs,
    seen_urls, step, start>>

\* tried with one more attempt counted for page p
Counted(t, p) ==
  [q \in DOMAIN t \cup {p} |->
     IF q # p THEN t[q] ELSE IF p \in DOMAIN t THEN t[p] + 1 ELSE 1]

\* main 77-81
LidlStart ==
  /\ prog = "lidl"
  /\ pc = "init"
  /\ all_hits' = <<>>
  /\ seen_ids' = {}
  /\ page_number' = 1
  /\ total_reported' = 0
  /\ pc' = "loop"
  /\ UNCHANGED <<lidlRest, attempt, backoff, sleeps, tried, stdout, outVars>>

\* main 84, fetch_page 52-53: fetch_page is called
LidlCall ==
  /\ prog = "lidl"
  /\ pc = "loop"
  /\ backoff' = INITIAL_BACKOFF
  /\ attempt' = 1
  /\ sleeps' = <<>>
  /\ pc' = "fetch"
  /\ UNCHANGED <<lidlRest, page_number, all_hits, seen_ids, total_reported,
                 tried, stdout, outVars>>

\* fetch_page 55-69, main 85-87: the attempt fails; after the last attempt
\* fetch_page returns None and main leaves the loop
LidlAttemptFails ==
  /\ prog = "lidl"
  /\ pc = "fetch"
  /\ \E f \in env.failures : tried' = Counted(tried, page_number)
  /\ IF GivesUp(attempt)
     THEN /\ stdout' = stdout \o <<"Failed", "Stopping">>
          /\ pc' = "emit"
          /\ UNCHANGED <<attempt, backoff, sleeps>>
     ELSE /\ stdout' = Append(stdout, "Transient")
          /\ sleeps' = Append(sleeps, backoff)
          /\ backoff' = NextBackoff(backoff)
          /\ attempt' = attempt + 1
          /\ pc' = "fetch"
  /\ UNCHANGED <<lidlRest, page_number, all_hits, seen_ids, total_reported,
                 outVars>>

\* fetch_page 61, main 85-87: the body is the JSON null
LidlNull ==
  /\ prog = "lidl"
  /\ pc = "fetch"
  /\ tried' = Counted(tried, page_number)
  /\ stdout' = Append(stdout, "Stopping")
  /\ pc' = "emit"
  /\ UNCHANGED <<lidlRest, page_number, all_hits, seen_ids, total_reported,
                 attempt, backoff, sleeps, outVars>>

\* fetch_page 61, main 89-90: the body is JSON but no object, or its result
\* is none; the AttributeError ends main()
LidlNoObject ==
  /\ prog = "lidl"
  /\ pc = "fetch"
  /\ tried' = Counted(tried, page_number)
  /\ pc' = "aborted"
  /\ UNCHANGED <<lidlRest, page_number, all_hits, seen_ids, total_reported,
                 attempt, backoff, sleeps, stdout, outVars>>

\* fetch_page 61, main 89-116: the attempt is answered; empty hits end the
\* loop, other hits are merged and the next page is asked for
LidlPage ==
  /\ prog = "lidl"
  /\ pc = "fetch"
  /\ tried' = Counted(tried, page_number)
  /\ \E result \in env.site :
       /\ page_number >= MaxLidlPage => result.hits = <<>>
       /\ total_reported' =
            IF total_reported = 0 THEN result.count ELSE total_reported
       /\ IF result.hits = <<>>
          THEN /\ stdout' = Append(stdout, "empty hits")
               /\ pc' = "emit"
               /\ UNCHANGED <<all_hits, seen_ids, page_number>>
          ELSE LET kept == lidl_dedupe(result.hits, seen_ids, <<>>) IN
               /\ all_hits' = all_hits \o kept.hits
               /\ seen_ids' = kept.ids
               /\ stdout' = Append(stdout, "Page")
               /\ page_number' = page_number + 1
               /\ pc' = "loop"
  /\ UNCHANGED <<lidlRest, attempt, backoff, sleeps, outVars>>

\* main 118-132: the output file is written
LidlWrite ==
  /\ prog = "lidl"
  /\ pc = "emit"
  /\ data' = [reported_total |-> total_reported,
              collected_count |-> Len(all_hits),
              hits |-> all_hits]
  /\ written' = TRUE
  /\ stdout' = Append(stdout, "Saved")
  /\ pc' = "done"
  /\ UNCHANGED <<lidlRest, lidlVars, attempt>>

LidlNext ==
  \/ LidlStart
  \/ LidlCall
  \/ LidlAttemptFails
  \/ LidlNull
  \/ LidlNoObject
  \/ LidlPage
  \/ LidlWrite

LidlSpec == LidlInit /\ [][LidlNext]_vars

(* ======================== names of page files ========================= *)
\* The characters of the file names, in the order of their code points. A
\* name is the sequence of its characters.
Alphabet ==
  <<".", "0", "1", "2", "3", "4", "5", "6", "7", "8", "9", "_", "a", "e",
    "g", "j", "n", "o", "p", "r", "s", "t">>

ord(c) == CHOOSE i \in 1..Len(Alphabet) : Alphabet[i] = c

\* a < b of two Python strings
RECURSIVE StrLess(_, _)
StrLess(a, b) ==
  IF b = <<>> THEN FALSE
  ELSE IF a = <<>> THEN TRUE
  ELSE IF ord(Head(a)) < ord(Head(b)) THEN TRUE
  ELSE IF ord(Head(a)) > ord(Head(b)) THEN FALSE
  ELSE StrLess(Tail(a), Tail(b))

\* sorted(names) of a set of distinct names
RECURSIVE sorted(_)
sorted(names) ==
  IF names = {} THEN <<>>
  ELSE LET m == CHOOSE x \in names : \A y \in names \ {x} : StrLess(x, y)
       IN <<m>> \o sorted(names \ {m})

\* d with d[k] = v
Saved(d, k, v) == [n \in DOMAIN d \cup {k} |-> IF n = k THEN v ELSE d[n]]

(* ============================= migros.py ============================== *)
\* The last page number on which the site still answers with hits.
MaxMigrosPage == 11

\* save_page 40: f"page_{page_number}.json"
page_file(n) ==
  <<"p", "a", "g", "e", "_">> \o str(n) \o <<".", "j", "s", "o", "n">>

\* The answers to the request of page n: searchJobs with two hits or with
\* none, or a body without data.searchJobs. total is 0 for None.
MigrosHit(n, i) == [page |-> n, rank |-> i]
MigrosFull(n) ==
  [searchJobs |-> TRUE, total |-> 21,
   hits |-> <<MigrosHit(n, 1), MigrosHit(n, 2)>>]
MigrosEmpty == [searchJobs |-> TRUE, total |-> 21, hits |-> <<>>]
MigrosOther == [searchJobs |-> FALSE, total |-> 0, hits |-> <<>>]
MigrosAnswers(n) ==
  IF n >= MaxMigrosPage THEN {MigrosEmpty, MigrosOther}
  ELSE {MigrosFull(n), MigrosEmpty, MigrosOther}

MigrosEnv == [site |-> {MigrosEmpty, MigrosOther}]

MigrosInit == ScriptInit("migros", MigrosEnv)

\* main 77
MigrosStart ==
  /\ prog = "migros"
  /\ pc = "init"
  /\ page_number' = 1
  /\ pc' = "loop"
  /\ UNCHANGED <<restVars, schindlerVars, mergeVars, for_ix, total, startrow,
                 all_jobs, seen_urls, step, start, attempt, stdout, outVars,
                 backoff, all_hits, seen_ids, total_reported, sleeps, tried>>

\* fetch_page 34-36: the request fails or is answered with an error status,
\* or the body is no JSON; the exception ends main()
MigrosFetchFails ==
  /\ prog = "migros"
  /\ pc = "loop"
  /\ pc' = "aborted"
  /\ UNCHANGED <<restVars, schindlerVars, mergeVars, for_ix, total, startrow,
                 all_jobs, seen_urls, step, start, attempt, stdout, outVars,
                 lidlVars>>

\* main 79-95: the page is fetched and saved; without hits, or without
\* data.searchJobs, the loop ends
MigrosPage ==
  /\ prog = "migros"
  /\ pc = "loop"
  /\ \E answer \in MigrosAnswers(page_number) :
       /\ disk' = Saved(disk, page_file(page_number), answer)
       /\ IF answer.searchJobs /\ answer.hits # <<>>
          THEN page_number' = page_number + 1 /\ pc' = "loop"
          ELSE pc' = "merge" /\ UNCHANGED page_number
  /\ UNCHANGED <<restVars, schindlerVars, files, hits_all, seen_keys,
                 items_unique, for_ix, total, startrow, all_jobs, seen_urls,
                 step, start, attempt, stdout, outVars, backoff, all_hits,
                 seen_ids, total_reported, sleeps, tried>>

\* mergeAll 46-50
MigrosMergeAll ==
  /\ prog = "migros"
  /\ pc = "merge"
  /\ hits_all' = <<>>
  /\ total' = 0
  /\ files' = sorted(DOMAIN disk)
  /\ for_ix' = 0
  /\ pc' = "files"
  /\ UNCHANGED <<restVars, schindlerVars, disk, seen_keys, items_unique,
                 startrow, all_jobs, seen_urls, step, start, attempt, stdout,
                 outVars, lidlVars>>

\* mergeAll 52-63: the hits of the next file are appended
MigrosFile ==
  /\ prog = "migros"
  /\ pc = "files"
  /\ for_ix < Len(files)
  /\ LET content == disk[files[for_ix + 1]] IN
       IF content.searchJobs
       THEN /\ total' = IF total = 0 THEN content.total ELSE total
            /\ hits_all' = hits_all \o content.hits
       ELSE UNCHANGED <<total, hits_all>>
  /\ for_ix' = for_ix + 1
  /\ UNCHANGED <<restVars, schindlerVars, disk, files, seen_keys,
                 items_unique, startrow, all_jobs, seen_urls, step, start,
                 attempt, stdout, outVars, lidlVars, pc>>

\* mergeAll 65-73: migros.json is written
MigrosWrite ==
  /\ prog = "migros"
  /\ pc = "files"
  /\ for_ix = Len(files)
  /\ data' = [total |-> total, hits |-> hits_all]
  /\ written' = TRUE
  /\ pc' = "done"
  /\ UNCHANGED <<restVars, schindlerVars, mergeVars, for_ix, total, startrow,
                 all_jobs, seen_urls, step, start, attempt, stdout, lidlVars>>

MigrosNext ==
  \/ MigrosStart
  \/ MigrosFetchFails
  \/ MigrosPage
  \/ MigrosMergeAll
  \/ MigrosFile
  \/ MigrosWrite

MigrosSpec == MigrosInit /\ [][MigrosNext]_vars

(* ============================== post.py =============================== *)
STEP == 5

\* The last startNumber at which the site may still report more items.
MaxPostStart == 10

\* save_page 37: f"start_{start_number}.json"
start_file(n) ==
  <<"s", "t", "a", "r", "t", "_">> \o str(n) \o <<".", "j", "s", "o", "n">>

\* s.split(sep): the pieces of s between the occurrences of sep
RECURSIVE split_from(_, _, _, _)
split_from(s, sep, piece, acc) ==
  IF s = <<>> THEN Append(acc, piece)
  ELSE IF Head(s) = sep THEN split_from(Tail(s), sep, <<>>, Append(acc, piece))
  ELSE split_from(Tail(s), sep, Append(piece, Head(s)), acc)

split(s, sep) == split_from(s, sep, <<>>, <<>>)

\* mergeAll 106-110: int(name.split("_")[1].split(".")[0]), 0 on any
\* exception
startnum_from_name(name) ==
  LET pieces == split(name, "_") IN
  IF Len(pieces) < 2 THEN 0
  ELSE LET number == split(pieces[2], ".")[1] IN
       IF isdigit(number) THEN int(number) ELSE 0

\* Mutant of sorted_by_startnum: the names are sorted as strings.
sorted_as_strings(names) == sorted(names)

\* mergeAll 112: sorted(names, key=_startnum_from_name), for names whose
\* keys differ
RECURSIVE sorted_by_startnum(_)
sorted_by_startnum(names) ==
  IF names = {} THEN <<>>
  ELSE LET m == CHOOSE x \in names : \A y \in names \ {x} :
                  startnum_from_name(x) < startnum_from_name(y)
       IN <<m>> \o sorted_by_startnum(names \ {m})

\* mergeAll 113: the name is that of a page file
IsPageFile(name) ==
  /\ Len(name) >= 11
  /\ SubSeq(name, 1, 6) = <<"s", "t", "a", "r", "t", "_">>
  /\ SubSeq(name, Len(name) - 4, Len(name)) = <<".", "j", "s", "o", "n">>

\* job items: with an id, with a url only, with neither; "" is an absent
\* field
P1 == [id |-> "1", url |-> "/1", title |-> "a"]
P1b == [id |-> "1", url |-> "/1b", title |-> "b"]
P2 == [id |-> "", url |-> "/2", title |-> "a"]
P3 == [id |-> "", url |-> "", title |-> "c"]
PostItems == {<<>>, <<P1, P2>>, <<P1b, P3>>, <<P2, P1b, P1>>}

\* The answers of the site: the job items and hasMoreJobItems, "None" if
\* the answer has no such field.
PostAnswers ==
  {[jobItems |-> items, hasMoreJobItems |-> more] :
     items \in PostItems, more \in {"True", "False", "None"}}

PostEnv == [site |-> PostAnswers]

\* _extract_items 43-46 on the answers of the model, which have jobItems
extract_items(answer) == answer.jobItems

\* _item_key 64-92 on the items of the model: the first candidate field
\* that is there, of which the model has "id" and "url", else the hash of
\* the item; the items of the model without either differ in their title
item_key(item) ==
  IF item.id # "" THEN [field |-> "id", value |-> item.id]
  ELSE IF item.url # "" THEN [field |-> "url", value |-> item.url]
  ELSE [field |-> "hash", value |-> item.title]

\* mergeAll 118-123: the items of a file whose key was not seen before
RECURSIVE merge_items(_, _, _)
merge_items(items, keys, acc) ==
  IF items = <<>> THEN [seen |-> keys, items_unique |-> acc]
  ELSE LET key == item_key(Head(items)) IN
       IF key \in keys THEN merge_items(Tail(items), keys, acc)
       ELSE merge_items(Tail(items), keys \cup {key}, Append(acc, Head(items)))

PostInit == ScriptInit("post", PostEnv)

\* main 131
PostStart ==
  /\ prog = "post"
  /\ pc = "init"
  /\ start' = 0
  /\ pc' = "loop"
  /\ UNCHANGED <<restVars, schindlerVars, mergeVars, for_ix, total, startrow,
                 all_jobs, seen_urls, step, attempt, stdout, outVars,
                 lidlVars>>

\* fetch_page 32-34: the request fails or is answered with an error status,
\* or the body is no JSON; the exception ends main()
PostFetchFails ==
  /\ prog = "post"
  /\ pc = "loop"
  /\ pc' = "aborted"
  /\ UNCHANGED <<restVars, schindlerVars, mergeVars, for_ix, total, startrow,
                 all_jobs, seen_urls, step, start, attempt, stdout, outVars,
                 lidlVars>>

\* main 133-146: the page is fetched and saved; the loop ends unless the
\* answer reports more items
PostPage ==
  /\ prog = "post"
  /\ pc = "loop"
  /\ \E answer \in env.site :
       /\ start >= MaxPostStart => answer.hasMoreJobItems # "True"
       /\ disk' = Saved(disk, start_file(start), answer)
       /\ IF answer.hasMoreJobItems = "True"
          THEN start' = start + STEP /\ pc' = "loop"
          ELSE pc' = "merge" /\ UNCHANGED start
  /\ UNCHANGED <<restVars, schindlerVars, files, hits_all, seen_keys,
                 items_unique, for_ix, total, startrow, all_jobs, seen_urls,
                 step, attempt, stdout, outVars, lidlVars>>

\* mergeAll 102-112
PostMergeAll ==
  /\ prog = "post"
  /\ pc = "merge"
  /\ seen_keys' = {}
  /\ items_unique' = <<>>
  /\ files' = sorted_by_startnum(DOMAIN disk)
  /\ for_ix' = 0
  /\ pc' = "files"
  /\ UNCHANGED <<restVars, schindlerVars, disk, hits_all, total, startrow,
                 all_jobs, seen_urls, step, start, attempt, stdout, outVars,
                 lidlVars>>

\* mergeAll 112-123: the items of the next file are merged
PostFile ==
  /\ prog = "post"
  /\ pc = "files"
  /\ for_ix < Len(files)
  /\ LET name == files[for_ix + 1]
         merged == merge_items(extract_items(disk[name]), seen_keys,
                               items_unique)
     IN IF IsPageFile(name)
        THEN /\ seen_keys' = merged.seen
             /\ items_unique' = merged.items_unique
        ELSE UNCHANGED <<seen_keys, items_unique>>
  /\ for_ix' = for_ix + 1
  /\ UNCHANGED <<restVars, schindlerVars, disk, files, hits_all, total,
                 startrow, all_jobs, seen_urls, step, start, attempt, stdout,
                 outVars, lidlVars, pc>>

\* mergeAll 125-128: the merged file is written
PostWrite ==
  /\ prog = "post"
  /\ pc = "files"
  /\ for_ix = Len(files)
  /\ data' = [count |-> Len(items_unique), items |-> items_unique]
  /\ written' = TRUE
  /\ pc' = "done"
  /\ UNCHANGED <<restVars, schindlerVars, mergeVars, for_ix, total, startrow,
                 all_jobs, seen_urls, step, start, attempt, stdout, lidlVars>>

PostNext ==
  \/ PostStart
  \/ PostFetchFails
  \/ PostPage
  \/ PostMergeAll
  \/ PostFile
  \/ PostWrite

PostSpec == PostInit /\ [][PostNext]_vars

(* ============================ schindler.py ============================ *)
\* scrape_all 196: the total when the first page reports none, 10**9
NO_TOTAL == 1000000000
SCHINDLER_STEP == 25

\* The first startrow at which the site has no jobs whatever it reported.
MaxSchindlerRow == 75

\* What parse_jobs_from_page finds on a page: the URLs of its job links
SchindlerLinks == {<<>>, <<"/job/a">>, <<"/job/a", "/job/b">>, <<"/job/c">>}

\* The pages of the site: the total of "Results X - Y of TOTAL", -1 if the
\* page has no such text, and the job links.
SchindlerPages ==
  {[of |-> t, links |-> l] : t \in {-1, 0, 30, 75}, l \in SchindlerLinks}

SchindlerEnv == [site |-> SchindlerPages]

\* extract_total_results 61-70, scrape_all 193-198
extract_total_results(page) == IF page.of = -1 THEN NO_TOTAL ELSE page.of

\* parse_jobs_from_page 98-183: a Job for every job link of the page
parse_jobs_from_page(page, source_row) ==
  [i \in 1..Len(page.links) |->
     [url |-> page.links[i], source_row |-> source_row]]

\* scrape_all 215: the jobs of the page whose URL was not seen
schindler_new_jobs(page_jobs, urls) ==
  SelectSeq(page_jobs, LAMBDA j : j.url \notin urls)

\* Mutant of FromFirstPage: the first page is requested again.
NeverFromFirstPage(row) == FALSE

\* scrape_all 206: the page of startrow 0 is the one already fetched
FromFirstPage(row) == row = 0

SchindlerInit == ScriptInit("schindler", SchindlerEnv)

schindlerRest ==
  <<restVars, lidlVars, mergeVars, for_ix, start, attempt, stdout>>

\* fetch_html 56-58: the request fails or is answered with an error
\* status; the exception ends main() (first page 191, later page 211)
SchindlerFetchFails ==
  /\ prog = "schindler"
  /\ \/ pc = "init" /\ requested' = <<0>>
     \/ /\ pc = "loop"
        /\ startrow < total
        /\ ~FromFirstPage(startrow)
        /\ requested' = Append(requested, startrow)
  /\ pc' = "aborted"
  /\ UNCHANGED <<schindlerRest, first_html, html, total, startrow, all_jobs,
                 seen_urls, step, outVars>>

\* scrape_all 187-203: the first page is fetched and its total read
SchindlerFirstPage ==
  /\ prog = "schindler"
  /\ pc = "init"
  /\ \E page \in env.site :
       /\ first_html' = page
       /\ total' = extract_total_results(page)
  /\ requested' = <<0>>
  /\ all_jobs' = <<>>
  /\ startrow' = 0
  /\ step' = SCHINDLER_STEP
  /\ seen_urls' = {}
  /\ pc' = "loop"
  /\ UNCHANGED <<schindlerRest, html, outVars>>

\* scrape_all 213-227: the page is parsed and its new jobs are kept; a
\* page without jobs ends the loop
SchindlerParse(page) ==
  LET page_jobs == parse_jobs_from_page(page, startrow)
      new_jobs_ == schindler_new_jobs(page_jobs, seen_urls)
  IN /\ html' = page
     /\ seen_urls' = seen_urls \cup {new_jobs_[i].url : i \in DOMAIN new_jobs_}
     /\ all_jobs' = all_jobs \o new_jobs_
     /\ IF page_jobs = <<>>
        THEN pc' = "emit" /\ UNCHANGED startrow
        ELSE pc' = "loop" /\ startrow' = startrow + step

\* scrape_all 205-207, 213-227: a round on the page fetched first
SchindlerReuse ==
  /\ prog = "schindler"
  /\ pc = "loop"
  /\ startrow < total
  /\ FromFirstPage(startrow)
  /\ SchindlerParse(first_html)
  /\ UNCHANGED <<schindlerRest, first_html, requested, total, step, outVars>>

\* scrape_all 205, 208-227: a round on a page fetched for it
SchindlerPage ==
  /\ prog = "schindler"
  /\ pc = "loop"
  /\ startrow < total
  /\ ~FromFirstPage(startrow)
  /\ requested' = Append(requested, startrow)
  /\ \E page \in env.site :
       /\ startrow >= MaxSchindlerRow => page.links = <<>>
       /\ SchindlerParse(page)
  /\ UNCHANGED <<schindlerRest, first_html, total, step, outVars>>

\* scrape_all 205, 229: startrow has reached the total
SchindlerLoopEnd ==
  /\ prog = "schindler"
  /\ pc = "loop"
  /\ ~(startrow < total)
  /\ pc' = "emit"
  /\ UNCHANGED <<schindlerRest, schindlerVars, total, startrow, all_jobs,
                 seen_urls, step, outVars>>

\* main 232-238: the jobs are written
SchindlerWrite ==
  /\ prog = "schindler"
  /\ pc = "emit"
  /\ data' = all_jobs
  /\ written' = TRUE
  /\ pc' = "done"
  /\ UNCHANGED <<schindlerRest, schindlerVars, total, startrow, all_jobs,
                 seen_urls, step>>

SchindlerNext ==
  \/ SchindlerFetchFails
  \/ SchindlerFirstPage
  \/ SchindlerReuse
  \/ SchindlerPage
  \/ SchindlerLoopEnd
  \/ SchindlerWrite

SchindlerSpec == SchindlerInit /\ [][SchindlerNext]_vars

(* ======================= properties of the run ======================== *)
FetchedOffsets == {fetched[i][1] : i \in 1..Len(fetched)}

PageOf(i) == fetched[i][2]

Hrefs(page) == {page.anchors[k].href : k \in 1..Len(page.anchors)}

\* The i-th page received is byte-identical to one received before it.
IdenticalToEarlier(i) == \E k \in 1..(i - 1) : PageOf(k) = PageOf(i)

\* The i-th page received holds no listing that an earlier page did not.
ZeroNew(i) ==
  \A u \in Hrefs(PageOf(i)) : \E k \in 1..(i - 1) : u \in Hrefs(PageOf(k))

NoTwoWithOneUrl(jobs) ==
  \A i, j \in 1..Len(jobs) : i # j => jobs[i].teaser_url # jobs[j].teaser_url

(* C1: over a whole run, polite_post is called with every offset at most   *)
(* once - in the queue loop and in fenaco's safety step together -         *)
(* whatever the pages declare.                                             *)
C1_NoDuplicateDispatch ==
  \A i, j \in 1..Len(dispatched) : i # j => dispatched[i] # dispatched[j]

\* A finished fenaco run that took a safety step and in which a page
\* declared again an offset that had already been requested.
C1_Witness ==
  /\ pc = "done"
  /\ prog = "fenaco"
  /\ phase = "safety"
  /\ \E i \in 1..Len(fetched) :
       \E k \in 1..(i - 1) : dispatched[k] \in Range(PageOf(i).pag)

(* C2: when polite_post fails fatally after at least one page has been     *)
(* processed, the records aggregated so far are still written to the       *)
(* output file.                                                            *)
C2_PartialResultsWritten ==
  (pc = "aborted" /\ Len(fetched) >= 1) => written

(* C3 (as claimed): the number of polite_post calls never exceeds the     *)
(* number of distinct offsets discovered from page content.                *)
C3_DispatchesWithinDeclared == Len(dispatched) <= Cardinality(declared)

\* Everything a page of the site can declare or list.
AllOffsets == {0} \cup UNION {Range(p.pag) : p \in Pages}

AllHrefs == UNION {Hrefs(p) : p \in Pages}

Weight == Cardinality(AllOffsets) + Cardinality(AllHrefs) + MAX_RETRIES + 4

\* What is left of the current polite_post call / of the pending queue.
LocalRank == IF pc = "post" THEN MAX_RETRIES + 1 - attempt ELSE Len(queue)

\* What the queue loop can still do: helsana goes on only while pages bring
\* unseen listings, fenaco only while offsets remain unrequested.
QueuePotential ==
  IF prog = "helsana"
  THEN 2 * Cardinality(AllHrefs \ seen_urls) + (IF pc = "loop" THEN 2 ELSE 1)
  ELSE 2 * Cardinality(AllOffsets \ seen_offsets) + (IF pc = "loop" THEN 0 ELSE 1)

\* What fenaco's safety loop can still do: last_off grows by STEP_ITEMS per
\* round and the loop ends at SAFETY_LIMIT.
SafetyPotential ==
  2 * (SAFETY_LIMIT + STEP_ITEMS - last_off) + (IF pc = "safety" THEN 1 ELSE 0)

SafetyTop == 2 + (2 * (SAFETY_LIMIT + STEP_ITEMS) + 2) * Weight

\* Some step of the run can be taken: a loop is at its test, a request is
\* answered, or the output is written.
CanStep ==
  AtStart \/ AtLoopBody \/ AtLoopEnd \/ InPolitePost \/ AtSafetyTest \/ AtWrite

\* A natural number that every step of the run makes smaller.
Measure ==
  IF Terminated THEN 0
  ELSE IF pc = "init"
       THEN SafetyTop + (2 * (Cardinality(AllOffsets) + Cardinality(AllHrefs)) + 3) * Weight
  ELSE IF pc = "emit" THEN 1
  ELSE IF pc = "safety" \/ (pc = "post" /\ phase = "safety")
       THEN 2 + SafetyPotential * Weight + LocalRank
  ELSE SafetyTop + QueuePotential * Weight + LocalRank

(* C3 (amended): every run ends - output written, or aborted by a fatal    *)
(* error - because each step lowers a natural-number measure and only a    *)
(* finished run cannot step; and the number of polite_post calls      *)
(* never exceeds the number of distinct offsets created: declared by page  *)
(* content, or produced by helsana's step forward or fenaco's safety step. *)
C3_TerminatesWithinCreated ==
  /\ [](Len(dispatched) <= Cardinality(declared \cup stepped))
  /\ [](Measure >= 0 /\ LocalRank < Weight /\ (Terminated \/ CanStep))
  /\ [][Measure' < Measure]_vars

\* A finished run that requested a stepped offset no page had declared.
C3_Witness ==
  /\ pc = "done"
  /\ \E o \in stepped \ declared : o \in Range(dispatched)
  /\ Len(dispatched) > Cardinality(declared)

\* Some page received is byte-identical to one received before it.
DuplicateReceived == \E i \in 1..Len(fetched) : IdenticalToEarlier(i)

ScenarioA ==
  /\ Range(discover_offsets(landing)) = {0, 7, 14}
  /\ \A i \in 1..Len(fetched) :
       /\ Range(PageOf(i).pag) \subseteq {0, 7, 14, 21}
       /\ fetched[i][1] \in {0, 7} => ~ZeroNew(i) /\ ~IdenticalToEarlier(i)
       /\ fetched[i][1] = 7 => Range(PageOf(i).pag) = {21}
       /\ fetched[i][1] \in {14, 21} =>
            Range(PageOf(i).pag) \subseteq {0, 7, 14, 21} /\ ZeroNew(i)

Processed == Len(fetched') = Len(fetched) + 1

(* C6 (as claimed): processing a page that is byte-identical to any page   *)
(* fetched earlier in the run - the landing page included - appends no     *)
(* offset to the pending queue.                                            *)
C6_IdenticalPageEnqueuesNothing ==
  [][(Processed /\ (\/ fetched'[Len(fetched')][2] = landing
                     \/ \E k \in 1..Len(fetched) :
                          PageOf(k) = fetched'[Len(fetched')][2]))
        => queue' = queue]_vars

(* C6 (amended): processing a page that is byte-identical to a page        *)
(* fetched earlier in the run for another offset appends no offset to the  *)
(* pending queue, even when the page holds pagination directives.          *)
C6_EchoedPageEnqueuesNothing ==
  [][(Processed /\ \E k \in 1..Len(fetched) :
                      PageOf(k) = fetched'[Len(fetched')][2])
        => queue' = queue]_vars

\* fenaco has run discovery on a page with directives that it had already
\* received for an earlier offset.
C6_Witness ==
  /\ prog = "fenaco"
  /\ phase = "queue"
  /\ pc = "loop"
  /\ \E i \in 1..Len(fetched) :
       IdenticalToEarlier(i) /\ PageOf(i).pag # <<>>

\* Every record the scripts have extracted from the pages they merge, in
\* merge order: helsana merges each page as it arrives, fenaco all collected
\* pages in offset order at the end.
RECURSIVE HelsanaSeenJobs(_)
HelsanaSeenJobs(i) ==
  IF i = 0 THEN <<>>
  ELSE HelsanaSeenJobs(i - 1)
         \o helsana_parse_teasers(PageOf(i), fetched[i][1])

SeenJobs ==
  IF prog = "helsana" THEN HelsanaSeenJobs(Len(fetched))
  ELSE fenaco_all_jobs(SortedSeq(DOMAIN html_by_offset), html_by_offset)

IdentityKey(j) == IF prog = "helsana" THEN j.teaser_url ELSE DedupKey(j)

FirstWithKey(jobs, key) ==
  jobs[MinOf({i \in 1..Len(jobs) : IdentityKey(jobs[i]) = key})]

(* C7: the aggregate, and the output file, never hold two records for one  *)
(* detail URL.                                                             *)
C7_OneRecordPerUrl == NoTwoWithOneUrl(results) /\ NoTwoWithOneUrl(data)

(* C8: first seen wins - every record of the output is the earliest        *)
(* occurrence of its identity key, with that occurrence's field values and *)
(* origin offset.                                                          *)
C8_FirstSeenWins ==
  pc = "done" =>
    \A i \in 1..Len(data) :
      data[i] = FirstWithKey(SeenJobs, IdentityKey(data[i]))

(* C9: Scenario D - when two fragments of one merged page link to the same *)
(* detail URL, the output holds exactly one record for that URL.           *)
C9_ScenarioD ==
  pc = "done" =>
    \A i \in 1..Len(fetched) :
      \A a, b \in DOMAIN PageOf(i).anchors :
        (a # b /\ PageOf(i).anchors[a].href = PageOf(i).anchors[b].href) =>
          Cardinality({k \in 1..Len(data) :
                         data[k].teaser_url = PageOf(i).anchors[a].href}) = 1

(* C10: one polite_post call issues at most MAX_RETRIES requests, and a    *)
(* call whose every request was answered 429/503 goes on retrying until    *)
(* the MAX_RETRIES-th answer and then raises: it never returns a page.     *)
C10_BoundedRetries ==
  /\ reqs <= MAX_RETRIES
  /\ (reqs >= 1 /\ throttles = reqs) =>
       \/ reqs < MAX_RETRIES /\ pc = "post"
       \/ reqs = MAX_RETRIES /\ pc = "aborted"

\* A call, after an earlier page was processed, that was throttled
\* MAX_RETRIES times.
C10_Witness ==
  /\ pc = "aborted"
  /\ throttles = MAX_RETRIES
  /\ Len(fetched) >= 1

(* ------------------------------- C11 ---------------------------------- *)
\* The step in which a request of polite_post is answered with an HTTP
\* error status other than 429/503: a request more, no throttle more, no
\* page returned.
HttpErrorAnswered ==
  /\ pc = "post"
  /\ reqs' = reqs + 1
  /\ throttles' = throttles
  /\ Len(fetched') = Len(fetched)

(* C11 (as stated): an HTTP error status other than 429/503 makes the      *)
(* polite_post call fail on that very attempt - no further request for     *)
(* that offset - and the error aborts the harvest loop.                    *)
C11_HttpErrorFailsAtOnce ==
  [][HttpErrorAnswered => pc' = "aborted"]_vars

(* C11 (amended): in helsana an HTTP error status other than 429/503 makes *)
(* the call fail on that very attempt. In fenaco the error is caught and   *)
(* the same offset is requested again with the delay multiplied by 1.6     *)
(* (capped at 6 s); only an error on attempt MAX_RETRIES propagates. An    *)
(* error that propagates aborts the run: no request follows and no output  *)
(* is written.                                                             *)
C11_HttpErrorFailsOrRetries ==
  /\ [][HttpErrorAnswered =>
          IF prog = "helsana" \/ attempt = MAX_RETRIES
          THEN pc' = "aborted" /\ written' = FALSE
          ELSE /\ pc' = "post"
               /\ off' = off
               /\ attempt' = attempt + 1
               /\ delay' = Min(DELAY_CAP, (delay * 16) \div 10)
               /\ dispatched' = dispatched]_vars
  /\ [][pc = "aborted" => UNCHANGED vars]_vars

\* fenaco received a page for an offset after an HTTP error and a throttle
\* on the same call.
C11_Witness ==
  /\ prog = "fenaco"
  /\ pc = "loop"
  /\ Len(fetched) >= 1
  /\ reqs = 3
  /\ throttles = 1
  /\ delay = (((FENACO_BASE_DELAY * 16) \div 10) * 18) \div 10

(* ------------------------------- C12 ---------------------------------- *)
\* The current polite_post call has received exactly n answers, all 429/503.
ThrottledTimes(n) == reqs = n /\ throttles = n

\* How many pages polite_post has returned for offset o.
ReturnedFor(o, f) == Cardinality({i \in 1..Len(f) : f[i][1] = o})

(* C12 (Scenario C): a request answered 429 three times in a row and then  *)
(* with success takes exactly 4 network requests within one polite_post    *)
(* call - the call is still running after the third 429 and is at its      *)
(* fourth attempt - the body is returned once, and the page's records are  *)
(* merged once: helsana holds one record per listing of the page, fenaco   *)
(* stores the page under its offset.                                       *)
C12_ScenarioC ==
  /\ [](ThrottledTimes(3) => pc = "post" /\ attempt = 4)
  /\ [][(ThrottledTimes(3) /\ pc = "post" /\ Processed) =>
          LET page == fetched'[Len(fetched')][2] IN
          /\ reqs' = 4
          /\ throttles' = 3
          /\ pc' \notin {"post", "aborted"}
          /\ fetched' = Append(fetched, <<off, page>>)
          /\ dispatched' = dispatched
          /\ ReturnedFor(off, fetched') = 1
          /\ prog = "helsana" =>
               \A u \in Hrefs(page) :
                 Cardinality({i \in 1..Len(results') :
                                results'[i].teaser_url = u}) = 1
          /\ (prog = "fenaco" /\ count_cards(page) > 0) =>
               /\ off \in DOMAIN html_by_offset'
               /\ html_by_offset'[off] = page]_vars

\* Offset 7 was answered 429 three times and then with a page that brought
\* a listing; an earlier page had been processed.
C12_Witness ==
  /\ pc = "loop"
  /\ off = 7
  /\ reqs = 4
  /\ throttles = 3
  /\ Len(fetched) = 2
  /\ fetched[2][1] = 7
  /\ fetched[2][2].anchors # <<>>

(* ------------------------------- C13 ---------------------------------- *)
\* The step in which a request of polite_post is answered 429/503.
ThrottledAnswered == pc = "post" /\ throttles' = throttles + 1

\* The answer before, in the same call, was a 429/503 too.
PrevThrottled == throttles >= 1 /\ (wait > 0 \/ HintUsable(retry_after))

(* C13 (as stated): within one polite_post call, the wait slept after a    *)
(* 429/503 that follows a 429/503 is not smaller than the wait slept after *)
(* the earlier one, unless it is at the cap - for every jitter draw and    *)
(* every Retry-After header.                                               *)
C13_WaitNeverDecreases ==
  [][(ThrottledAnswered /\ PrevThrottled) =>
       (wait' >= wait \/ wait' >= MAX_WAIT)]_vars

(* C13 (amended): within one polite_post call, for two consecutive 429/503 *)
(* answers neither of which carries a digit-only Retry-After header, the   *)
(* later wait is larger than the earlier one, or both are the cap of 10 s, *)
(* for every jitter draw. A wait taken from a Retry-After header is the    *)
(* header's value, whatever the wait before it was.                        *)
C13_ComputedWaitNeverDecreases ==
  [][(/\ ThrottledAnswered
      /\ PrevThrottled
      /\ ~HintUsable(retry_after)
      /\ ~HintUsable(retry_after')) =>
       /\ wait' >= wait
       /\ wait' <= MAX_WAIT
       /\ wait' = wait => wait = MAX_WAIT]_vars

\* A call's second 429/503 in a row, without a usable Retry-After, has
\* been waited for with the largest jitter and the call goes on.
C13_Witness ==
  /\ pc = "post"
  /\ reqs = 2
  /\ throttles = 2
  /\ ~HintUsable(retry_after)
  /\ wait = 2 * ThrottleDelay(BaseDelay) + JITTER_WAIT

(* ------------------------------- C14 ---------------------------------- *)
(* C14: after a 429/503 the wait is the value of the Retry-After header    *)
(* when the header is present and a string of digits ("05" is 5 s, "30" is *)
(* 30 s, "0" is 0 s); otherwise it is twice the current delay plus a       *)
(* jitter of at most 0.6 s, cut at the maximum wait of 10 s. The delay     *)
(* carried to the next attempt is 1.8 times the current one and never      *)
(* exceeds 6 s.                                                            *)
C14_WaitFromHintOrBackoff ==
  /\ [](delay <= DELAY_CAP)
  /\ [][ThrottledAnswered =>
          /\ IF retry_after'.present /\ isdigit(retry_after'.text)
             THEN /\ wait' = float(retry_after'.text)
                  /\ retry_after' = Header(<<"0">>) => wait' = 0
                  /\ retry_after' = Header(<<"0", "5">>) => wait' = 5000000
                  /\ retry_after' = Header(<<"3", "0">>) => wait' = 30000000
             ELSE /\ wait' <= MAX_WAIT
                  /\ wait' >= Min(MAX_WAIT, 2 * delay)
                  /\ wait' <= 2 * delay + JITTER_WAIT
          /\ delay' = Min(DELAY_CAP, (delay * 18) \div 10)
          /\ delay' >= delay]_vars

\* At the capped delay, a 429/503 without a usable Retry-After has been
\* waited for 10 s, after an earlier answer of the call.
C14_Witness ==
  /\ pc = "post"
  /\ throttles >= 2
  /\ delay = DELAY_CAP
  /\ retry_after = Header(<<"1", ".", "5">>)
  /\ wait = MAX_WAIT

(* ------------------------------- C15 ---------------------------------- *)
\* The step in which polite_post is called.
CallBegins == Len(dispatched') = Len(dispatched) + 1

(* C15: the backoff state belongs to one polite_post call. Within a call   *)
(* the delay never falls from one attempt to the next and each attempt     *)
(* sleeps the escalated delay plus a jitter of at most 0.25 s; every call  *)
(* starts at attempt 1 with the base delay and sleeps base delay plus      *)
(* jitter, whatever delay the call before it had reached.                  *)
C15_BackoffLocalToCall ==
  /\ [][CallBegins =>
          /\ pc' = "post"
          /\ attempt' = 1
          /\ delay' = BaseDelay
          /\ slept' >= BaseDelay
          /\ slept' <= BaseDelay + JITTER_PRE
          /\ wait' = 0]_vars
  /\ [][(pc = "post" /\ pc' = "post") =>
          /\ off' = off
          /\ attempt' = attempt + 1
          /\ delay' > delay \/ delay' = DELAY_CAP
          /\ slept' >= delay'
          /\ slept' <= delay' + JITTER_PRE]_vars
  /\ []((pc = "post" /\ attempt = 1) => delay = BaseDelay)

\* The third call of a run, after two calls that returned a page, is at
\* its first attempt and has slept the base delay plus the largest jitter.
C15_Witness ==
  /\ pc = "post"
  /\ attempt = 1
  /\ Len(dispatched) = 3
  /\ Len(fetched) = 2
  /\ delay = BaseDelay
  /\ slept = BaseDelay + JITTER_PRE

(* ------------------------------- C16 ---------------------------------- *)
\* How often offset o stands in the queue q.
TimesIn(o, q) == Cardinality({i \in 1..Len(q) : q[i] = o})

(* C16 (ledger invariant): the pending queue never holds an offset twice   *)
(* nor an offset already visited; processing a page leaves the queue       *)
(* unchanged for every offset that is visited or pending; a visited offset *)
(* stays visited and never returns to the queue, so every pop is followed  *)
(* by a request: the 'already seen' skip after a pop is never taken.       *)
C16_LedgerInvariant ==
  /\ [](/\ \A o \in Range(queue) : TimesIn(o, queue) = 1
        /\ Range(queue) \cap seen_offsets = {}
        /\ AtLoopBody => Head(queue) \notin seen_offsets)
  /\ [][Processed =>
          /\ \A o \in seen_offsets \cup Range(queue) :
               TimesIn(o, queue') = TimesIn(o, queue)
          /\ \A i \in 1..Len(queue) : queue'[i] = queue[i]]_vars
  /\ [][seen_offsets \subseteq seen_offsets']_vars
  /\ [][Len(queue') < Len(queue) =>
          /\ queue' = Tail(queue)
          /\ CallBegins
          /\ off' = Head(queue)]_vars

\* The page received for offset 0 declared offset 0, already visited, and
\* offsets 7 and 14, already pending; the queue is as it was.
C16_Witness ==
  /\ pc = "loop"
  /\ Len(fetched) = 1
  /\ fetched[1] = <<0, PgO>>
  /\ seen_offsets = {0}
  /\ queue = <<7, 14>>

(* ------------------------------- C17 ---------------------------------- *)
\* The place of offset o in the sequence s (o occurs in s).
PlaceIn(o, s) == MinOf({i \in 1..Len(s) : s[i] = o})

\* The number of offsets popped from the queue so far.
Popped == Len(enqueued) - Len(queue)

(* C17: offsets leave the queue in the order of their first enqueue: the   *)
(* offsets popped so far are the first of those enqueued, requested in     *)
(* that order, and the queue holds the rest; so of two dispatched offsets  *)
(* the one enqueued first was dispatched first. When the request for a     *)
(* popped offset is issued the offset is already in seen_offsets.          *)
C17_FifoDispatch ==
  /\ [](/\ Popped >= 0
        /\ Popped <= Len(dispatched)
        /\ SubSeq(dispatched, 1, Popped) = SubSeq(enqueued, 1, Popped)
        /\ queue = SubSeq(enqueued, Popped + 1, Len(enqueued))
        /\ \A i, j \in 1..Len(enqueued) :
             (/\ i < j
              /\ enqueued[i] \in Range(dispatched)
              /\ enqueued[j] \in Range(dispatched)) =>
               PlaceIn(enqueued[i], dispatched)
                 < PlaceIn(enqueued[j], dispatched)
        /\ (pc = "post" /\ phase = "queue") => off \in seen_offsets)
  /\ [][Len(queue') < Len(queue) =>
          /\ off' = Head(queue)
          /\ pc' = "post"
          /\ reqs' = 0
          /\ Head(queue) \in seen_offsets']_vars

\* Offset 21, declared by a page, was enqueued after the landing page's
\* 0, 7 and 14 and is requested after them.
C17_Witness ==
  /\ pc = "post"
  /\ enqueued = <<0, 7, 14, 21>>
  /\ dispatched = <<0, 7, 14, 21>>
  /\ off = 21

(* ------------------------------- C18 ---------------------------------- *)
\* The first page received, for offset 0, held no listing.
FirstPageEmpty ==
  /\ Len(fetched) >= 1
  /\ fetched[1][1] = 0
  /\ Hrefs(fetched[1][2]) = {}

(* C18 (as stated): the zero-new-records stop does not apply to the first  *)
(* page: in a run that ends normally after the page for offset 0 yielded   *)
(* zero new records, the offsets that page declares were enqueued and the  *)
(* offsets declared by the landing page were dispatched.                   *)
C18_FirstPageNeverStops ==
  (pc = "done" /\ FirstPageEmpty) =>
    /\ Range(fetched[1][2].pag) \subseteq Range(enqueued)
    /\ Range(discover_offsets(landing)) \subseteq Range(dispatched)

(* C18 (amended): helsana's zero-new-records stop applies to every page,   *)
(* the first included: a page that brings no record not seen before ends   *)
(* the loop at once, nothing is enqueued from it and nothing more is       *)
(* dispatched; after an empty page for offset 0 the run ends with offset 0 *)
(* as its only request and an empty output. fenaco has no such stop: its   *)
(* queue loop enqueues and dispatches whatever the records are.            *)
C18_ZeroNewStopsAtAnyPage ==
  /\ [][(prog = "helsana" /\ Processed
         /\ Hrefs(fetched'[Len(fetched')][2]) \subseteq seen_urls) =>
          /\ pc' = "emit"
          /\ queue' = queue
          /\ enqueued' = enqueued
          /\ results' = results]_vars
  /\ [][(prog = "helsana" /\ pc \in {"emit", "done"}) =>
          dispatched' = dispatched]_vars
  /\ []((prog = "helsana" /\ pc = "done" /\ FirstPageEmpty) =>
          /\ dispatched = <<0>>
          /\ queue = Tail(discover_offsets(landing))
          /\ written
          /\ data = <<>>)
  /\ []((prog = "fenaco" /\ pc = "done" /\ FirstPageEmpty) =>
          /\ Range(fetched[1][2].pag) \subseteq Range(enqueued)
          /\ Range(discover_offsets(landing)) \subseteq Range(dispatched))

\* helsana finished after an empty page for offset 0, with the landing
\* page's offsets 7 and 14 still pending.
C18_Witness ==
  /\ prog = "helsana"
  /\ pc = "done"
  /\ fetched = <<<<0, PgE>>>>
  /\ queue = <<7, 14>>

(* ------------------------------- C19 ---------------------------------- *)
\* The landing page holds a form with an input named offset.
HasOffsetForm == \E i \in 1..Len(forms) : "offset" \in forms[i].inputs

(* C19: if the landing page holds no form with an offset field, the run    *)
(* fails at its start and no paginated request is ever issued; and the     *)
(* form whose action the requests are posted to always has an offset       *)
(* field.                                                                  *)
C19_NoOffsetFormNoPost ==
  /\ ~HasOffsetForm => (pc \in {"init", "aborted"} /\ dispatched = <<>>)
  /\ pc \notin {"init", "aborted"} =>
       \E i \in 1..Len(forms) :
         /\ forms[i].action = action
         /\ "offset" \in forms[i].inputs

(* ------------------------------- C20 ---------------------------------- *)
\* bern: the landing page was loaded and has a form, every probe was
\* answered, and none of the pages answered held a listing that the
\* landing page does not hold.
AllOnLandingPage ==
  /\ prog = "bern"
  /\ tests # <<>>
  /\ ~raised
  /\ worked = NoCombo

(* C20: for a source whose listings all fit on the landing page - no       *)
(* pagination probe returns a listing not already seen - the run of bern   *)
(* still completes and writes an output file that holds at least the       *)
(* landing page's records.                                                 *)
C20_SinglePageSourceCompletes ==
  (AllOnLandingPage /\ pc \notin {"init", "probe"}) =>
    /\ pc \in {"emit", "detail", "done"}
    /\ pc \in {"detail", "done"} =>
         /\ written
         /\ \A i \in 1..Len(landing.anchors) :
              landing.anchors[i].title # "" =>
                \E k \in 1..Len(data) :
                  data[k].detail_url = landing.anchors[i].href


(* ---- C21: fetch failures are reported on the progress stream ---- *)
\* A step of bern's continuation loop in which the request fails, for the
\* first time in the run, and the loop ends with it.
CrawlStoppedByFailure ==
  /\ prog = "bern"
  /\ pc = "crawl"
  /\ pc' = "emit"
  /\ ~raised /\ raised'
  /\ Len(submitted') = Len(submitted) + 1

\* C21: every fetch failure that ends or shortens the harvest is reported
\* on the progress stream: a step in which a failed request stops bern's
\* pagination prints a message.  (Violated: the except branch of bern.py
\* 238-239 breaks out of the loop and prints nothing.)
C21_FailureReported ==
  [][CrawlStoppedByFailure => stdout' # stdout]_vars


(* ---- C22: bern issues no request twice ---- *)
\* C22: in bern's scrape_listing no two submissions of one run (probes and
\* continuation requests) have the same method, target URL and payload.
C22_NoRequestTwice ==
  prog = "bern" =>
    \A i, j \in 1..Len(submitted) : i < j => submitted[i] # submitted[j]


(* ---- C23: the payload of a request is the base with its offset set ---- *)
\* The base field set main() builds from the landing page.
BaseAtInit ==
  LET f == IF prog = "helsana" THEN helsana_form(forms) ELSE fenaco_form(forms)
  IN IF prog = "helsana"
     THEN helsana_payload(forms[f], discover_step_items(landing))
     ELSE fenaco_payload(forms[f])

\* C23: every payload passed to polite_post for offset O has the fields of
\* the base payload captured at the start, each with the base's value but
\* "offset", which is the decimal text of O; the base itself stays as it
\* was captured.
C23_PayloadIsBaseWithOffset ==
  pc \in {"loop", "post", "safety", "emit", "done"} =>
    /\ payload = BaseAtInit
    /\ dispatched # <<>> =>
         /\ DOMAIN posted = DOMAIN BaseAtInit
         /\ \A n \in DOMAIN posted \ {"offset"} : posted[n] = BaseAtInit[n]
         /\ isdigit(posted["offset"])
         /\ DecimalValue(posted["offset"], 0) = dispatched[Len(dispatched)]
         /\ posted["offset"][1] = "0" => Len(posted["offset"]) = 1

\* C23 witness: polite_post is under way for an offset of two digits, with
\* a payload that differs from the base.
C23_Witness ==
  /\ pc = "post"
  /\ off >= 10
  /\ posted # payload
  /\ posted["offset"] = str(off)
  /\ Len(dispatched) >= 2


(* ---- C24: one request at a time ---- *)
\* The page polite_post returned last, and the offset it was asked for.
LastFetched == fetched[Len(fetched)]

\* The page returned last has been through discovery, extraction and merge:
\* its listings are kept (helsana) or the page is stored (fenaco), and the
\* offsets it declares are seen or pending (fenaco: queue loop only).
LastPageProcessed ==
  LET o == LastFetched[1]
      page == LastFetched[2]
  IN /\ prog = "helsana" => Hrefs(page) \subseteq seen_urls
     /\ prog = "fenaco" =>
          o \in DOMAIN html_by_offset /\ html_by_offset[o] = page
     /\ (prog = "helsana" \/ o \notin stepped) =>
          Range(discover_offsets(page)) \subseteq
            seen_offsets \cup Range(queue)

\* C24: at most one request is in flight: the calls of polite_post begun
\* exceed the calls ended by at most one, inside a call the requests sent
\* exceed the answers received by exactly one, and while a request is
\* under way the page returned before it has been processed.
C24_OneRequestInFlight ==
  /\ Len(dispatched) - Len(fetched) \in {0, 1}
  /\ pc \in {"init", "loop", "safety", "emit", "done"} =>
       Len(dispatched) = Len(fetched)
  /\ pc = "post" =>
       /\ Len(dispatched) = Len(fetched) + 1
       /\ attempt - reqs = 1
       /\ fetched # <<>> => LastPageProcessed

\* C24 witness: a third call of polite_post is in its second attempt, the
\* two calls before it have returned.
C24_Witness ==
  /\ pc = "post"
  /\ Len(dispatched) = 3
  /\ Len(fetched) = 2
  /\ attempt = 2
  /\ reqs = 1


(* ---- C25: offset discovery ---- *)
\* The N of the sendPagination(N) directives of text t, said without a
\* scan: at some place stands the literal, then k >= 1 digits, then ")".
DirectiveNumbers(t) ==
  {int(SubSeq(t, i + 1, i + k)) :
     <<i, k>> \in {ik \in (1..Len(t)) \X (1..Len(t)) :
                     /\ ik[1] + ik[2] + 1 <= Len(t)
                     /\ t[ik[1]] = SEND_PAG
                     /\ isdigit(SubSeq(t, ik[1] + 1, ik[1] + ik[2]))
                     /\ t[ik[1] + ik[2] + 1] = ")"}}

StrictlyIncreasing(q) == \A i, j \in 1..Len(q) : i < j => q[i] < q[j]

C26_StepForward ==
  [][(prog = "helsana" /\ Processed) =>
       LET page == fetched'[Len(fetched')][2]
           dup == \E k \in 1..Len(fetched) : PageOf(k) = page
           addsNew == Hrefs(page) \ seen_urls # {}
       IN IF ~dup /\ addsNew
          THEN /\ off + step_items \in seen_offsets' \cup Range(queue')
               /\ pc' = "loop"
          ELSE /\ enqueued' = enqueued
               /\ queue' = queue]_vars

\* C26 witness: helsana has requested an offset that no page declared, larger
\* than every offset declared, and a later page stopped the harvest.
C26_Witness ==
  /\ prog = "helsana"
  /\ pc = "emit"
  /\ \E i \in 1..Len(dispatched) :
       /\ dispatched[i] \in stepped
       /\ dispatched[i] \notin declared
       /\ \A d \in declared : d < dispatched[i]
  /\ Len(fetched) >= 3


(* ---- C27: helsana's dispatches are bounded by the listings ---- *)
\* C27: in helsana every page that does not end the loop adds a listing URL
\* not kept before, the URLs kept are among the site's detail URLs, and so
\* the calls of polite_post number at most the distinct detail URLs plus
\* one.
C27_DispatchesBoundedByUrls ==
  /\ [](prog = "helsana" =>
          /\ seen_urls \subseteq AllHrefs
          /\ Len(dispatched) <= Cardinality(seen_urls) + 1
          /\ Len(dispatched) <= Cardinality(AllHrefs) + 1)
  /\ [][(prog = "helsana" /\ Processed /\ pc' = "loop") =>
          /\ seen_urls \subseteq seen_urls'
          /\ Cardinality(seen_urls') > Cardinality(seen_urls)]_vars

\* C27 witness: the bound is met: every detail URL of the site is kept and
\* one more page was requested, which ended the loop.
C27_Witness ==
  /\ prog = "helsana"
  /\ pc = "done"
  /\ seen_urls = AllHrefs
  /\ Len(dispatched) = Cardinality(AllHrefs) + 1
  /\ Len(fetched) = Len(dispatched)


(* ---- C28: fenaco's safety-step phase ---- *)
\* A step in which fenaco's safety loop calls polite_post.
SafetyRequest == prog = "fenaco" /\ pc = "safety" /\ CallBegins

\* A step in which the safety loop receives a page.
SafetyAnswer == prog = "fenaco" /\ phase = "safety" /\ Processed

\* C28: fenaco's safety loop runs only with an empty queue; each of its
\* requests is for the largest collected offset plus STEP_ITEMS, above
\* every offset requested before and at most SAFETY_LIMIT + STEP_ITEMS - 1,
\* and is made only if the page at the largest collected offset has at
\* least STEP_ITEMS cards and that offset is below SAFETY_LIMIT; a page
\* without cards is not collected and ends the loop.
C28_SafetyStep ==
  /\ []((pc = "safety" \/ phase = "safety") =>
          /\ prog = "fenaco"
          /\ queue = <<>>
          /\ last_off = MaxOf(DOMAIN html_by_offset)
          /\ cards_last = count_cards(html_by_offset[last_off]))
  /\ [](\A o \in stepped : prog = "fenaco" =>
          o <= SAFETY_LIMIT + STEP_ITEMS - 1)
  /\ [][SafetyRequest =>
          /\ off' = MaxOf(DOMAIN html_by_offset) + STEP_ITEMS
          /\ \A i \in 1..Len(dispatched) : dispatched[i] < off'
          /\ count_cards(html_by_offset[MaxOf(DOMAIN html_by_offset)])
               >= STEP_ITEMS
          /\ MaxOf(DOMAIN html_by_offset) < SAFETY_LIMIT]_vars
  /\ [][SafetyAnswer =>
          IF count_cards(fetched'[Len(fetched')][2]) = 0
          THEN pc' = "emit" /\ html_by_offset' = html_by_offset
          ELSE /\ pc' = "safety"
               /\ off \in DOMAIN html_by_offset'
               /\ last_off' = off]_vars
  /\ [][(pc = "safety" /\ ~CallBegins /\ pc' # pc) =>
          /\ pc' = "emit"
          /\ (cards_last < STEP_ITEMS \/ last_off >= SAFETY_LIMIT)]_vars

\* C28 witness: the safety loop has requested the offset SAFETY_LIMIT +
\* STEP_ITEMS - 1, collected a full page there and stopped at the limit.
C28_Witness ==
  /\ prog = "fenaco"
  /\ pc = "emit"
  /\ SAFETY_LIMIT + STEP_ITEMS - 1 \in stepped
  /\ last_off = SAFETY_LIMIT + STEP_ITEMS - 1
  /\ cards_last >= STEP_ITEMS


(* ---- C29: hirslanden's startrow fallback stops ---- *)
\* C29: hirslanden's startrow loop stops once two consecutive pages have
\* brought no new job: the loop is never at its test again after two such
\* pages, whether they were empty or held only jobs already collected.
C29_StopsAfterTwoStalePages ==
  (prog = "hirslanden" /\ pc = "rows") => stale_runs < 2

(* ---- C30: hirslanden's next-link phase ---- *)
NoRepeat(q) == \A i, j \in 1..Len(q) : i < j => q[i] # q[j]

\* C30: in hirslanden's next-link loop the jobs of a page URL are extracted
\* at most once, so at most as many pages are processed as there are page
\* URLs; a round whose URL was visited before extracts nothing and ends
\* the loop, every other round processes a URL not visited before.
C30_NextLinkPhaseEnds ==
  /\ [](prog = "hirslanden" =>
          /\ NoRepeat(extracted)
          /\ Range(extracted) = visited_pages
          /\ visited_pages \subseteq HUrls
          /\ Len(extracted) <= Cardinality(HUrls))
  /\ [][(prog = "hirslanden" /\ pc = "page") =>
          IF url \in visited_pages
          THEN /\ pc' = "fallback"
               /\ all_jobs' = all_jobs
               /\ extracted' = extracted
          ELSE /\ extracted' = Append(extracted, url)
               /\ Cardinality(visited_pages') = Cardinality(visited_pages) + 1
               /\ pc' \in {"load", "fallback"}]_vars

\* C30 witness: the next links form a cycle: the second page links back to
\* the first, which was loaded again and left unprocessed.
C30_Witness ==
  /\ prog = "hirslanden"
  /\ pc = "fallback"
  /\ extracted = <<HIRSLANDEN_START, "/search/?startrow=2">>
  /\ url = HIRSLANDEN_START
  /\ next_url = HIRSLANDEN_START
  /\ Len(all_jobs) >= 2

\* The entry of the detailed list that belongs to the overview job j: j's
\* fields plus an error, or j merged with a detail of j's URL.
EntryOf(entry, j) ==
  \/ entry = DictMerge(j, [error |-> "str(e)"])
  \/ \E d \in Details(j.detail_url) : entry = DictMerge(j, d)

\* C35: bern's detail phase appends exactly one entry per job of the
\* overview, in overview order: after for_ix rounds the detailed list holds
\* for_ix entries, the i-th being the i-th overview job merged with its
\* detail or carrying an error field; no round ends the run, and the
\* detailed file is written with one entry for every job.
C35_DetailPhaseIsolated ==
  /\ []((prog = "bern" /\ pc \in {"detail", "done"}) =>
          /\ Len(detailed) = for_ix
          /\ for_ix <= Len(data)
          /\ \A i \in 1..Len(detailed) : EntryOf(detailed[i], data[i])
          /\ pc = "done" => Len(detailed) = Len(data))
  /\ [][(prog = "bern" /\ pc = "detail") =>
          /\ pc' \in {"detail", "done"}
          /\ Len(detailed') \in {Len(detailed), Len(detailed) + 1}
          /\ SubSeq(detailed', 1, Len(detailed)) = detailed]_vars

\* C35 witness: the detail of the first of two jobs failed, that of the
\* second was fetched, and the run ended with both entries.
C35_Witness ==
  /\ prog = "bern"
  /\ pc = "done"
  /\ Len(data) >= 2
  /\ Len(detailed) = Len(data)
  /\ "error" \in DOMAIN detailed[1]
  /\ "error" \notin DOMAIN detailed[2]
  /\ detailed[2].title = "Title"

\* C31: lidl's fetch_page makes at most LIDL_MAX_RETRIES attempts for a
\* page; it sleeps after every failed attempt but the last, INITIAL_BACKOFF
\* first and twice the sleep before each time after; when the last attempt
\* fails the loop ends with the hits collected left as they are, and the
\* file written then holds exactly those hits.
C31_LidlRetries ==
  /\ [](prog = "lidl" =>
          /\ \A p \in DOMAIN tried : tried[p] <= LIDL_MAX_RETRIES
          /\ pc = "fetch" =>
               /\ attempt \in 1..LIDL_MAX_RETRIES
               /\ Len(sleeps) = attempt - 1
               /\ \A i \in 1..Len(sleeps) :
                    sleeps[i] = INITIAL_BACKOFF * 2 ^ (i - 1)
               /\ backoff = INITIAL_BACKOFF * 2 ^ (attempt - 1)
          /\ written => /\ data.hits = all_hits
                        /\ data.collected_count = Len(all_hits))
  /\ [][(prog = "lidl" /\ pc = "fetch" /\ pc' = "fetch") =>
          /\ attempt' = attempt + 1
          /\ sleeps' = Append(sleeps, backoff)
          /\ backoff' = 2 * backoff]_vars
  /\ [][(prog = "lidl" /\ stdout' = stdout \o <<"Failed", "Stopping">>) =>
          /\ tried'[page_number] = LIDL_MAX_RETRIES
          /\ pc' = "emit"
          /\ all_hits' = all_hits
          /\ ~written']_vars
  /\ [][(prog = "lidl" /\ pc = "emit") =>
          /\ written'
          /\ data'.hits = all_hits
          /\ pc' = "done"]_vars

\* C31 witness: the first page gave hits, all five attempts for the second
\* page failed after sleeps of 1, 2, 4 and 8 seconds, and the file holds
\* the hits of the first page.
C31_Witness ==
  /\ prog = "lidl"
  /\ pc = "done"
  /\ written
  /\ page_number = 2
  /\ tried = <<1, 5>>
  /\ sleeps = <<1, 2, 4, 8>>
  /\ stdout[Len(stdout) - 2] = "Failed"
  /\ data.hits = <<L1, L2>>

\* The hits of the page files 1..n in the order the pages were fetched.
RECURSIVE HitsInPageOrder(_)
HitsInPageOrder(n) ==
  IF n = 0 THEN <<>>
  ELSE LET content == disk[page_file(n)] IN
       HitsInPageOrder(n - 1) \o
         (IF content.searchJobs THEN content.hits ELSE <<>>)

\* C32: migros.json holds the hits of the saved page files in ascending
\* numeric page order, which is the order the pages were fetched in.
C32_MergedInPageOrder ==
  (prog = "migros" /\ written) => data.hits = HitsInPageOrder(page_number)

\* The startNumbers whose page file holds an item of key k.
StartsWith(k) ==
  {n \in 0..start : /\ start_file(n) \in DOMAIN disk
                    /\ \E i \in DOMAIN disk[start_file(n)].jobItems :
                         item_key(disk[start_file(n)].jobItems[i]) = k}

\* The first item of key k in the page file of startNumber n.
FirstOf(k, n) ==
  LET items == disk[start_file(n)].jobItems
      i == MinOf({x \in DOMAIN items : item_key(items[x]) = k})
  IN items[i]

\* The keys of the items of all page files.
SavedKeys ==
  UNION {{item_key(disk[f].jobItems[i]) : i \in DOMAIN disk[f].jobItems} :
           f \in DOMAIN disk}

\* C33: the file post's mergeAll writes has no two items of the same key,
\* its count is the number of its items, and it holds, for every key of
\* the page files, the first item of that key in the file of the lowest
\* startNumber that has one.
C33_MergedUnique ==
  (prog = "post" /\ written) =>
    /\ data.count = Len(data.items)
    /\ \A i, j \in DOMAIN data.items :
         item_key(data.items[i]) = item_key(data.items[j]) => i = j
    /\ {item_key(data.items[i]) : i \in DOMAIN data.items} = SavedKeys
    /\ \A i \in DOMAIN data.items :
         LET k == item_key(data.items[i]) IN
         data.items[i] = FirstOf(k, MinOf(StartsWith(k)))

\* C33 witness: the files of startNumber 5 and 10 both hold an item of key
\* id:1, with different content; the one of file 5 was kept.
C33_Witness ==
  /\ prog = "post"
  /\ written
  /\ start = 10
  /\ disk[start_file(0)].jobItems = <<>>
  /\ disk[start_file(5)].jobItems = <<P1, P2>>
  /\ disk[start_file(10)].jobItems = <<P1b, P3>>
  /\ data = [count |-> 3, items |-> <<P1, P2, P3>>]

\* C34 as stated: every startrow schindler requests is a multiple of 25
\* and smaller than the total the first page reports.
C34_RequestsBelowReportedTotal ==
  (prog = "schindler" /\ first_html # <<>> /\ first_html.of # -1) =>
    \A i \in DOMAIN requested :
      /\ requested[i] % SCHINDLER_STEP = 0
      /\ requested[i] < first_html.of

\* C34, amended: schindler requests startrow 0 first, whatever the site
\* holds, and after it 25, 50, ... in this order, each once and each
\* smaller than total, which is the total the first page reports or
\* NO_TOTAL if it reports none; the round of startrow 0 works on the page
\* fetched first without a request; a round whose page yields no jobs ends
\* the loop, any other round goes on to the next startrow; after the loop
\* nothing is requested.
C34_SchindlerRequests ==
  /\ [](prog = "schindler" =>
          /\ \A i \in DOMAIN requested :
               /\ requested[i] = SCHINDLER_STEP * (i - 1)
               /\ i > 1 => requested[i] < total
          /\ StrictlyIncreasing(requested)
          /\ first_html # <<>> =>
               total = IF first_html.of = -1 THEN NO_TOTAL ELSE first_html.of)
  /\ [][(prog = "schindler" /\ pc = "loop" /\ startrow < total
           /\ pc' # "aborted") =>
          /\ startrow = 0 => html' = first_html /\ requested' = requested
          /\ startrow # 0 => requested' = Append(requested, startrow)
          /\ IF html'.links = <<>>
             THEN pc' = "emit"
             ELSE pc' = "loop" /\ startrow' = startrow + SCHINDLER_STEP]_vars
  /\ [][(prog = "schindler" /\ pc \in {"emit", "done", "aborted"}) =>
          requested' = requested]_vars

\* C34 witness: the first page reports 75 jobs; the pages of startrow 0 and
\* 25 yield jobs, the page of startrow 50 yields none and ends the loop.
C34_Witness ==
  /\ prog = "schindler"
  /\ pc = "done"
  /\ first_html.of = 75
  /\ requested = <<0, 25, 50>>
  /\ html.links = <<>>
  /\ Len(data) >= 2

====
